---- MODULE Spec2Model ----
(***************************************************************************)
(* A model of the SiteBay MCP server: the HTTP client (client.py), the     *)
(* authenticator (auth.py), the tool layer (tools/*.py, server.py) and the *)
(* process lifecycle of server.py.                                         *)
(*                                                                         *)
(* Strings are TLA+ strings (sequences of characters).  TLA+ source is     *)
(* ASCII, so three glyphs of the Python source are transliterated:         *)
(*   bullet U+2022 -> "*",  cross mark U+274C -> "[X]",                    *)
(*   check mark U+2705 -> "[OK]",  warning sign U+26A0 -> "[!]".           *)
(***************************************************************************)
EXTENDS Integers, Sequences, FiniteSets, TLC

VARIABLES
    envToken,        \* os.environ["SITEBAY_API_TOKEN"], "" when unset
    sitebay_client,  \* server.py global: 0 is None, else the id of the client
    constructed,     \* how many SiteBayClient objects have been constructed
    probed,          \* ids of the clients whose list_regions probe succeeded
    mainpc,          \* where main() of server.py is
    atexit,          \* the callbacks registered with atexit
    closeCalls,      \* how often SiteBayClient.close has been invoked
    inv,             \* the tool invocations in flight, by slot
    last,            \* the tool invocation that completed last, with its outcome
    call,            \* the client method call made last, with its outcome
    auth,            \* the SiteBayAuth object: whether constructed, and its api_token
    clientHeaders    \* the default headers of the client's httpx.AsyncClient

vars == <<envToken, sitebay_client, constructed, probed, mainpc, atexit,
          closeCalls, inv, last, call, auth, clientHeaders>>

-----------------------------------------------------------------------------
(* Python values that come out of response.json(): tagged records.  An     *)
(* object keeps its keys in insertion order with the values alongside.     *)

JNull == [t |-> "null"]
JBool(b) == [t |-> "bool", b |-> b]
JNum(n) == [t |-> "num", n |-> n]
JStr(s) == [t |-> "str", s |-> s]
JList(xs) == [t |-> "list", xs |-> xs]
JObj(ks, vs) == [t |-> "obj", ks |-> ks, vs |-> vs]

IsDict(v) == v.t = "obj"
IsList(v) == v.t = "list"
IsStr(v) == v.t = "str"

\* bool(v)
Truthy(v) ==
    CASE v.t = "null" -> FALSE
      [] v.t = "bool" -> v.b
      [] v.t = "num" -> v.n # 0
      [] v.t = "str" -> Len(v.s) > 0
      [] v.t = "list" -> Len(v.xs) > 0
      [] v.t = "obj" -> Len(v.ks) > 0

\* The outcome of evaluating a Python expression: a value or a raised exception.
Val(v) == [ok |-> TRUE, v |-> v]
Raise(e) == [ok |-> FALSE, exc |-> e]

RECURSIVE Join(_, _)
\* sep.join(strs)
Join(strs, sep) ==
    IF Len(strs) = 0 THEN ""
    ELSE IF Len(strs) = 1 THEN strs[1]
    ELSE strs[1] \o sep \o Join(Tail(strs), sep)

\* sub in s, for two strings
Contains(s, sub) ==
    \E i \in 1..(Len(s) - Len(sub) + 1) : SubSeq(s, i, i + Len(sub) - 1) = sub

\* s.startswith(p)
StartsWith(s, p) == Len(s) >= Len(p) /\ SubSeq(s, 1, Len(p)) = p

HasKey(d, k) == \E i \in 1..Len(d.ks) : d.ks[i] = k

KeyIndex(d, k) == CHOOSE i \in 1..Len(d.ks) : d.ks[i] = k

\* d.get(k, default) on a dict
DictGet(d, k, default) == IF HasKey(d, k) THEN d.vs[KeyIndex(d, k)] ELSE default

\* v.get(k, default): AttributeError unless v is a dict
PyGet(v, k, default) ==
    IF IsDict(v) THEN Val(DictGet(v, k, default)) ELSE Raise("AttributeError")

\* k in v, for a string k
PyIn(k, v) ==
    CASE v.t = "obj" -> Val(HasKey(v, k))
      [] v.t = "list" -> Val(\E i \in 1..Len(v.xs) : v.xs[i].t = "str" /\ v.xs[i].s = k)
      [] v.t = "str" -> Val(Contains(v.s, k))
      [] OTHER -> Raise("TypeError")

\* v[k], for a string k that is known to be "in" v
PyIndex(v, k) ==
    IF IsDict(v) /\ HasKey(v, k) THEN Val(v.vs[KeyIndex(v, k)])
    ELSE IF IsDict(v) THEN Raise("KeyError")
    ELSE Raise("TypeError")

RECURSIVE PyRepr(_)
\* repr(v)
PyRepr(v) ==
    CASE v.t = "null" -> "None"
      [] v.t = "bool" -> IF v.b THEN "True" ELSE "False"
      [] v.t = "num" -> ToString(v.n)
      [] v.t = "str" -> "'" \o v.s \o "'"
      [] v.t = "list" ->
            "[" \o Join([i \in 1..Len(v.xs) |-> PyRepr(v.xs[i])], ", ") \o "]"
      [] v.t = "obj" ->
            "{" \o Join([i \in 1..Len(v.ks) |->
                            "'" \o v.ks[i] \o "': " \o PyRepr(v.vs[i])], ", ") \o "}"

\* str(v)
PyStr(v) == IF v.t = "str" THEN v.s ELSE PyRepr(v)

\* The elements a for loop over v visits; TypeError when v is not iterable.
PyIter(v) ==
    CASE v.t = "list" -> Val(v.xs)
      [] v.t = "obj" -> Val([i \in 1..Len(v.ks) |-> JStr(v.ks[i])])
      [] v.t = "str" -> Val([i \in 1..Len(v.s) |-> JStr(SubSeq(v.s, i, i))])
      [] OTHER -> Raise("TypeError")

-----------------------------------------------------------------------------
(* client.py: validation-error formatting.                                 *)

\* LocField that keeps only the last segment of loc.
LocField_LastSegment(loc, unknown) ==
    IF ~Truthy(loc) THEN Val(unknown)
    ELSE LET it == PyIter(loc) IN
         IF ~it.ok THEN it ELSE Val(PyStr(it.v[Len(it.v)]))

\* " -> ".join(str(x) for x in loc) if loc else <unknown>
LocField(loc, unknown) ==
    IF ~Truthy(loc) THEN Val(unknown)
    ELSE LET it == PyIter(loc) IN
         IF ~it.ok THEN it
         ELSE Val(Join([i \in 1..Len(it.v) |-> PyStr(it.v[i])], " -> "))

RECURSIVE DetailLines(_)
\* The error_messages list built from a list `detail` (client.py 74-80).
DetailLines(xs) ==
    IF Len(xs) = 0 THEN Val(<<>>)
    ELSE LET error == Head(xs) IN
         IF ~IsDict(error) THEN DetailLines(Tail(xs))
         ELSE LET field == LocField(DictGet(error, "loc", JList(<<>>)), "unknown field")
                  msg == DictGet(error, "msg", JStr("Invalid value"))
              IN  IF ~field.ok THEN field
                  ELSE LET rest == DetailLines(Tail(xs)) IN
                       IF ~rest.ok THEN rest
                       ELSE Val(<<field.v \o ": " \o PyStr(msg)>> \o rest.v)

\* ErrorsLines with one line per field, list values joined by "; ".
ErrorsLines_Joined(ks, vs) ==
    [i \in 1..Len(ks) |->
        ks[i] \o ": " \o
        (IF IsList(vs[i])
         THEN Join([j \in 1..Len(vs[i].xs) |-> PyStr(vs[i].xs[j])], "; ")
         ELSE PyStr(vs[i]))]

RECURSIVE ErrorsLines(_, _)
\* The error_messages list built from an `errors` mapping (client.py 93-99).
ErrorsLines(ks, vs) ==
    IF Len(ks) = 0 THEN <<>>
    ELSE LET field == Head(ks)
             messages == Head(vs)
             mine == IF IsList(messages)
                     THEN [i \in 1..Len(messages.xs) |->
                              field \o ": " \o PyStr(messages.xs[i])]
                     ELSE <<field \o ": " \o PyStr(messages)>>
         IN  mine \o ErrorsLines(Tail(ks), Tail(vs))

\* "Validation Error:\n" + "\n".join(f"  * {msg}" for msg in error_messages)
Bulleted(lines) ==
    "Validation Error:\n" \o Join([i \in 1..Len(lines) |-> "  * " \o lines[i]], "\n")

\* FormatErrorsOrFallback whose catch-all drops the body.
FormatErrorsOrFallback_NoBody(error_data) ==
    LET fallback == Val("Validation failed")
        inErrors == PyIn("errors", error_data)
    IN  IF ~inErrors.ok THEN inErrors
        ELSE IF ~inErrors.v THEN fallback
        ELSE LET errors == PyIndex(error_data, "errors") IN
             IF ~errors.ok THEN errors
             ELSE IF ~IsDict(errors.v) THEN fallback
             ELSE LET lines == ErrorsLines(errors.v.ks, errors.v.vs) IN
                  IF Len(lines) > 0 THEN Val(Bulleted(lines)) ELSE fallback

\* client.py 89-104: the `errors` rule, then the catch-all.
FormatErrorsOrFallback(error_data) ==
    LET fallback == Val("Validation Error: " \o PyStr(error_data))
        inErrors == PyIn("errors", error_data)
    IN  IF ~inErrors.ok THEN inErrors
        ELSE IF ~inErrors.v THEN fallback
        ELSE LET errors == PyIndex(error_data, "errors") IN
             IF ~errors.ok THEN errors
             ELSE IF ~IsDict(errors.v) THEN fallback
             ELSE LET lines == ErrorsLines(errors.v.ks, errors.v.vs) IN
                  IF Len(lines) > 0 THEN Val(Bulleted(lines)) ELSE fallback

\* client.py 85-104: the `message` rule and what follows it.
FormatMessageOrLater(error_data) ==
    LET inMessage == PyIn("message", error_data) IN
    IF ~inMessage.ok THEN inMessage
    ELSE IF inMessage.v
    THEN LET m == PyIndex(error_data, "message") IN
         IF ~m.ok THEN m ELSE Val("Validation Error: " \o PyStr(m.v))
    ELSE FormatErrorsOrFallback(error_data)

\* SiteBayClient._format_validation_error
_format_validation_error(error_data) ==
    IF ~Truthy(error_data) THEN Val("Validation failed")
    ELSE LET inDetail == PyIn("detail", error_data) IN
         IF ~inDetail.ok THEN inDetail
         ELSE IF ~inDetail.v THEN FormatMessageOrLater(error_data)
         ELSE LET detail == PyIndex(error_data, "detail") IN
              IF ~detail.ok THEN detail
              ELSE IF IsStr(detail.v) THEN Val("Validation Error: " \o detail.v.s)
              ELSE IF IsList(detail.v)
              THEN LET lines == DetailLines(detail.v.xs) IN
                   IF ~lines.ok THEN lines
                   ELSE IF Len(lines.v) > 0 THEN Val(Bulleted(lines.v))
                   ELSE FormatMessageOrLater(error_data)
              ELSE FormatMessageOrLater(error_data)

\* d[k] = v on a dict: an existing key keeps its place
DictSet(d, k, v) ==
    IF HasKey(d, k)
    THEN JObj(d.ks, [i \in 1..Len(d.ks) |-> IF d.ks[i] = k THEN v ELSE d.vs[i]])
    ELSE JObj(Append(d.ks, k), Append(d.vs, v))

EmptyDict == JObj(<<>>, <<>>)

RECURSIVE ExtractDetail(_, _)
\* client.py 123-128: the loop over a list `detail`.
ExtractDetail(xs, acc) ==
    IF Len(xs) = 0 THEN Val(acc)
    ELSE LET error == Head(xs) IN
         IF ~IsDict(error) THEN ExtractDetail(Tail(xs), acc)
         ELSE LET field == LocField(DictGet(error, "loc", JList(<<>>)), "unknown")
                  msg == DictGet(error, "msg", JStr("Invalid value"))
              IN  IF ~field.ok THEN field
                  ELSE ExtractDetail(Tail(xs), DictSet(acc, field.v, msg))

\* "; ".join(messages): TypeError unless every item is a string
JoinMessages(xs) ==
    IF \A i \in 1..Len(xs) : IsStr(xs[i])
    THEN Val(Join([i \in 1..Len(xs) |-> xs[i].s], "; "))
    ELSE Raise("TypeError")

RECURSIVE ExtractErrors(_, _, _)
\* client.py 132-136: the loop over an `errors` mapping.
ExtractErrors(ks, vs, acc) ==
    IF Len(ks) = 0 THEN Val(acc)
    ELSE LET messages == Head(vs) IN
         IF IsList(messages)
         THEN LET j == JoinMessages(messages.xs) IN
              IF ~j.ok THEN j
              ELSE ExtractErrors(Tail(ks), Tail(vs), DictSet(acc, Head(ks), JStr(j.v)))
         ELSE ExtractErrors(Tail(ks), Tail(vs),
                            DictSet(acc, Head(ks), JStr(PyStr(messages))))

\* client.py 130-138: the elif branch of _extract_field_errors.
ExtractFromErrors(error_data) ==
    LET inErrors == PyIn("errors", error_data) IN
    IF ~inErrors.ok THEN inErrors
    ELSE IF ~inErrors.v THEN Val(EmptyDict)
    ELSE LET errors == PyIndex(error_data, "errors") IN
         IF ~errors.ok THEN errors
         ELSE IF IsDict(errors.v)
         THEN ExtractErrors(errors.v.ks, errors.v.vs, EmptyDict)
         ELSE Val(EmptyDict)

\* SiteBayClient._extract_field_errors
_extract_field_errors(error_data) ==
    IF ~Truthy(error_data) THEN Val(EmptyDict)
    ELSE LET inDetail == PyIn("detail", error_data) IN
         IF ~inDetail.ok THEN inDetail
         ELSE IF ~inDetail.v THEN ExtractFromErrors(error_data)
         ELSE LET detail == PyIndex(error_data, "detail") IN
              IF ~detail.ok THEN detail
              ELSE IF IsList(detail.v) THEN ExtractDetail(detail.v.xs, EmptyDict)
              ELSE ExtractFromErrors(error_data)

-----------------------------------------------------------------------------
(* What the remote API can answer: a status with a body, or no response at *)
(* all (httpx.RequestError).  A body is its raw text with, when the text   *)
(* is JSON, the value response.json() returns (<<>> when it raises).       *)

Body(text, json) == [text |-> text, json |-> json]

SiteObj ==
    JObj(<<"fqdn", "active">>, <<JStr("x.example.com"), JBool(TRUE)>>)

RECURSIVE JsonText(_)
\* The JSON text that response.json() parses to v.
JsonText(v) ==
    CASE v.t = "null" -> "null"
      [] v.t = "bool" -> IF v.b THEN "true" ELSE "false"
      [] v.t = "num" -> ToString(v.n)
      [] v.t = "str" -> "\"" \o v.s \o "\""
      [] v.t = "list" ->
            "[" \o Join([i \in 1..Len(v.xs) |-> JsonText(v.xs[i])], ", ") \o "]"
      [] v.t = "obj" ->
            "{" \o Join([i \in 1..Len(v.ks) |->
                            "\"" \o v.ks[i] \o "\": " \o JsonText(v.vs[i])], ", ") \o "}"

\* One entry of a FastAPI/Pydantic `detail` list.
LocMsg(loc, msg) == JObj(<<"loc", "msg">>, <<JList(loc), JStr(msg)>>)

\* What a 422 body can hold under "detail": <<>> is no such key.
DetailShapes == <<
    <<>>,
    <<JStr("Rate limited")>>,
    <<JList(<<LocMsg(<<JStr("body"), JStr("field")>>, "invalid")>>)>>,
    <<JList(<<LocMsg(<<JStr("body"), JStr("name")>>, "required"),
              LocMsg(<<JStr("query"), JStr("items"), JNum(0)>>, "too small")>>)>>,
    <<JList(<<LocMsg(<<JStr("body"), JStr("name")>>, "required"),
              LocMsg(<<JStr("body"), JStr("name")>>, "too short")>>)>>,
    <<JList(<<JObj(<<"msg">>, <<JStr("bad request")>>)>>)>>,
    <<JList(<<JStr("oops")>>)>>,
    <<JList(<<>>)>>,
    <<JNum(5)>>,
    <<JList(<<JObj(<<"loc", "msg">>, <<JNum(5), JStr("bad")>>)>>)>>
    >>

\* ... under "message"
MessageShapes == << <<>>, <<JStr("Invalid input")>> >>

\* ... under "errors"
ErrorsShapes == <<
    <<>>,
    <<JObj(<<"name">>, <<JStr("required")>>)>>,
    <<JObj(<<"name", "email">>,
           <<JList(<<JStr("too short"), JStr("bad chars")>>), JStr("invalid")>>)>>,
    <<JObj(<<"age">>, <<JList(<<JNum(1)>>)>>)>>,
    <<EmptyDict>>,
    <<JStr("boom")>>
    >>

\* The 422 bodies: every combination of a `detail`, a `message` and an
\* `errors` shape, as the JSON object the API sends.
ValidationBodies ==
    [n \in 1..(Len(DetailShapes) * Len(MessageShapes) * Len(ErrorsShapes)) |->
        LET d == DetailShapes[((n - 1) % Len(DetailShapes)) + 1]
            m == MessageShapes[(((n - 1) \div Len(DetailShapes)) % Len(MessageShapes)) + 1]
            e == ErrorsShapes[((n - 1) \div (Len(DetailShapes) * Len(MessageShapes))) + 1]
            KeyIf(k, shape) == IF Len(shape) = 0 THEN <<>> ELSE <<k>>
            error_data == JObj(KeyIf("detail", d) \o KeyIf("message", m) \o KeyIf("errors", e),
                               d \o m \o e)
        IN  Body(JsonText(error_data), <<error_data>>)]

ApiBodies == <<
    Body("{\"results\": [{\"fqdn\": \"x.example.com\", \"active\": true}]}",
         <<JObj(<<"results">>, <<JList(<<SiteObj>>)>>)>>),
    Body("{\"fqdn\": \"x.example.com\", \"active\": true}", <<SiteObj>>),
    Body("{}", <<EmptyDict>>),
    Body("[{\"name\": \"us-east\"}]",
         <<JList(<<JObj(<<"name">>, <<JStr("us-east")>>)>>)>>),
    Body("[]", <<JList(<<>>)>>),
    Body("[1]", <<JList(<<JNum(1)>>)>>),
    Body("null", <<JNull>>),
    Body("Service Unavailable", <<>>),
    Body("", <<>>),
    Body("{\"detail\": \"Rate limited\"}",
         <<JObj(<<"detail">>, <<JStr("Rate limited")>>)>>),
    Body("{\"detail\": [{\"loc\": [\"body\", \"field\"], \"msg\": \"invalid\"}]}",
         <<JObj(<<"detail">>,
                <<JList(<<JObj(<<"loc", "msg">>,
                               <<JList(<<JStr("body"), JStr("field")>>),
                                 JStr("invalid")>>)>>)>>)>>)
    >>

\* 422 bodies that are JSON but not objects or lists: a number and a string.
MalformedBodies == <<Body("5", <<JNum(5)>>), Body("\"detail\"", <<JStr("detail")>>)>>

Bodies == ApiBodies \o ValidationBodies \o MalformedBodies

Statuses == {200, 399, 400, 401, 404, 422, 500, 503}

\* str(e) of the httpx.RequestError raised when no response arrives
TransportDetails == {"timed out", "All connection attempts failed"}

Response(status, b) == [err |-> "", status |-> status, body |-> Bodies[b]]
TransportFailure(detail) == [err |-> detail, status |-> 0, body |-> Body("", <<>>)]

Responses ==
    {Response(st, b) : st \in Statuses, b \in 1..Len(ApiBodies)}
        \cup {TransportFailure(d) : d \in TransportDetails}

\* The 422 answers: with any body, structured or not.
ValidationResponses == {Response(422, b) : b \in 1..Len(Bodies)}

IsTransportFailure(resp) == resp.err # ""
ResponseText(resp) == resp.body.text
\* response.json(): <<value>>, or <<>> when it raises
ResponseJson(resp) == resp.body.json

-----------------------------------------------------------------------------
(* exceptions.py: an exception is its class, str(e), and the attributes    *)
(* the class carries.  An absent status_code / response_data is <<>>.      *)

Exc(class, msg, status, data, field_errors) ==
    [exc |-> class, msg |-> msg, status |-> status, data |-> data,
     field_errors |-> field_errors]

AuthenticationError(msg) == Exc("AuthenticationError", msg, <<>>, <<>>, EmptyDict)
SiteNotFoundError(msg) == Exc("SiteNotFoundError", msg, <<>>, <<>>, EmptyDict)
ConfigurationError(msg) == Exc("ConfigurationError", msg, <<>>, <<>>, EmptyDict)
APIError(msg, status, data) == Exc("APIError", msg, status, data, EmptyDict)
\* self.field_errors = field_errors or {}
ValidationError(msg, field_errors) ==
    Exc("ValidationError", msg, <<>>, <<>>, field_errors)
\* an exception of a builtin class (AttributeError, TypeError, ValueError)
Builtin(class, msg) == Exc(class, msg, <<>>, <<>>, EmptyDict)

SiteBayErrors ==
    {"SiteBayError", "AuthenticationError", "APIError", "ValidationError",
     "SiteNotFoundError", "TeamNotFoundError", "ConfigurationError"}

\* isinstance(e, SiteBayError)
IsSiteBayError(e) == e.exc \in SiteBayErrors

NoExc == Exc("", "", <<>>, <<>>, EmptyDict)

\* type(v).__name__
TypeName(v) ==
    CASE v.t = "null" -> "NoneType"
      [] v.t = "bool" -> "bool"
      [] v.t = "num" -> "int"
      [] v.t = "str" -> "str"
      [] v.t = "list" -> "list"
      [] v.t = "obj" -> "dict"

\* the AttributeError of v.<attr> on a value that has no such attribute
NoAttribute(v, attr) ==
    Builtin("AttributeError",
            "'" \o TypeName(v) \o "' object has no attribute '" \o attr \o "'")

-----------------------------------------------------------------------------
(* client.py: the request primitive.  The outcome of a client call is the  *)
(* HTTP requests it handed to the transport, and a returned value or a     *)
(* raised exception.                                                       *)

API_PREFIX == "/f/api/v1"

\* SiteBayClient._get_url
_get_url_AlwaysSlash(endpoint) == API_PREFIX \o "/" \o endpoint

_get_url(endpoint) ==
    IF ~StartsWith(endpoint, "/") THEN API_PREFIX \o "/" \o endpoint
    ELSE API_PREFIX \o endpoint

HttpRequest(method, url, params, json) ==
    [method |-> method, url |-> url, params |-> params, json |-> json]

Returned(sent, v) == [sent |-> sent, ret |-> TRUE, val |-> v, e |-> NoExc]
Raised(sent, e) == [sent |-> sent, ret |-> FALSE, val |-> JNull, e |-> e]

\* ValidationErrorOf without the except clause: what formatting or extracting
\* raised leaves _request.
ValidationErrorOf_NoExcept(error_message, field_errors, fallback) ==
    IF ~error_message.ok THEN Builtin(error_message.exc, "")
    ELSE IF ~field_errors.ok THEN Builtin(field_errors.exc, "")
    ELSE ValidationError(error_message.v,
                         IF Truthy(field_errors.v) THEN field_errors.v ELSE EmptyDict)

\* client.py 186-192: the ValidationError raised from the formatted message and
\* the extracted field errors; the fallback of the except clause (193-195)
\* when formatting or extracting raised.
ValidationErrorOf(error_message, field_errors, fallback) ==
    IF ~error_message.ok \/ ~field_errors.ok THEN fallback
    ELSE ValidationError(error_message.v,
                         IF Truthy(field_errors.v) THEN field_errors.v ELSE EmptyDict)

\* ValidationOutcome whose except clause drops the raw text.
ValidationOutcome_NoText(resp) ==
    LET json == ResponseJson(resp)
        fallback == ValidationError("Validation failed", EmptyDict)
    IN  IF Len(json) = 0 THEN fallback
        ELSE ValidationErrorOf(_format_validation_error(json[1]),
                               _extract_field_errors(json[1]), fallback)

\* client.py 181-195: status 422
ValidationOutcome(resp) ==
    LET json == ResponseJson(resp)
        fallback == ValidationError("Validation Error: " \o ResponseText(resp), EmptyDict)
    IN  IF Len(json) = 0 THEN fallback
        ELSE ValidationErrorOf(_format_validation_error(json[1]),
                               _extract_field_errors(json[1]), fallback)

\* ApiErrorOutcome whose default message carries the raw body as well.
ApiErrorOutcome_AlwaysText(resp) ==
    LET json == ResponseJson(resp)
        text == "API Error: " \o ToString(resp.status) \o " - " \o ResponseText(resp)
    IN  IF Len(json) = 0 THEN APIError(text, <<resp.status>>, <<>>)
        ELSE LET detail == PyGet(json[1], "detail", JStr(text)) IN
             IF detail.ok THEN APIError(PyStr(detail.v), <<resp.status>>, json)
             ELSE APIError(text, <<resp.status>>, json)

\* client.py 196-207: any other status >= 400
ApiErrorOutcome(resp) ==
    LET json == ResponseJson(resp)
        code == ToString(resp.status)
    IN  IF Len(json) = 0
        THEN APIError("API Error: " \o code \o " - " \o ResponseText(resp),
                      <<resp.status>>, <<>>)
        ELSE LET detail == PyGet(json[1], "detail", JStr("API Error: " \o code)) IN
             IF detail.ok THEN APIError(PyStr(detail.v), <<resp.status>>, json)
             ELSE APIError("API Error: " \o code \o " - " \o ResponseText(resp),
                           <<resp.status>>, json)

\* Classify with the 422 branch lost: a 422 falls to the generic >= 400 rule.
Classify_No422(sent, resp) ==
    IF IsTransportFailure(resp)
    THEN Raised(sent, APIError("Network error: " \o resp.err, <<>>, <<>>))
    ELSE IF resp.status = 401
    THEN Raised(sent, AuthenticationError("Invalid or expired API token"))
    ELSE IF resp.status = 404
    THEN Raised(sent, SiteNotFoundError("Requested resource not found"))
    ELSE IF resp.status >= 400 THEN Raised(sent, ApiErrorOutcome(resp))
    ELSE IF Len(ResponseJson(resp)) > 0 THEN Returned(sent, ResponseJson(resp)[1])
    ELSE Returned(sent, JStr(ResponseText(resp)))

\* Classify with the except clause of client.py 216-217 lost: the transport's
\* own exception escapes.
Classify_NoExcept(sent, resp) ==
    IF IsTransportFailure(resp)
    THEN Raised(sent, Builtin("RequestError", resp.err))
    ELSE IF resp.status = 401
    THEN Raised(sent, AuthenticationError("Invalid or expired API token"))
    ELSE IF resp.status = 404
    THEN Raised(sent, SiteNotFoundError("Requested resource not found"))
    ELSE IF resp.status = 422 THEN Raised(sent, ValidationOutcome(resp))
    ELSE IF resp.status >= 400 THEN Raised(sent, ApiErrorOutcome(resp))
    ELSE IF Len(ResponseJson(resp)) > 0 THEN Returned(sent, ResponseJson(resp)[1])
    ELSE Returned(sent, JStr(ResponseText(resp)))

\* client.py 167-217: what _request does with the transport's answer
Classify(sent, resp) ==
    IF IsTransportFailure(resp)
    THEN Raised(sent, APIError("Network error: " \o resp.err, <<>>, <<>>))
    ELSE IF resp.status = 401
    THEN Raised(sent, AuthenticationError("Invalid or expired API token"))
    ELSE IF resp.status = 404
    THEN Raised(sent, SiteNotFoundError("Requested resource not found"))
    ELSE IF resp.status = 422 THEN Raised(sent, ValidationOutcome(resp))
    ELSE IF resp.status >= 400 THEN Raised(sent, ApiErrorOutcome(resp))
    ELSE IF Len(ResponseJson(resp)) > 0 THEN Returned(sent, ResponseJson(resp)[1])
    ELSE Returned(sent, JStr(ResponseText(resp)))

\* RequestsSent with a retry of a 5xx answer inside the client.
RequestsSent_Retry5xx(method, endpoint, params, json_data, resp) ==
    LET req == HttpRequest(method, _get_url(endpoint), params, json_data) IN
    IF ~IsTransportFailure(resp) /\ resp.status >= 500 THEN <<req, req>> ELSE <<req>>

\* client.py 165-174: the requests _request hands to the transport
RequestsSent(method, endpoint, params, json_data, resp) ==
    <<HttpRequest(method, _get_url(endpoint), params, json_data)>>

\* SiteBayClient._request
_request(method, endpoint, params, json_data, resp) ==
    Classify(RequestsSent(method, endpoint, params, json_data, resp), resp)

get(endpoint, params, resp) == _request("GET", endpoint, params, JNull, resp)
post(endpoint, json_data, params, resp) ==
    _request("POST", endpoint, params, json_data, resp)
patch(endpoint, json_data, params, resp) ==
    _request("PATCH", endpoint, params, json_data, resp)
delete(endpoint, params, resp) == _request("DELETE", endpoint, params, JNull, resp)

-----------------------------------------------------------------------------
(* client.py 235-369: the domain wrappers.  Optional arguments are Python  *)
(* values (JNull is None); fqdn and ids are strings.                       *)

\* a dict literal with one entry
Dict1(k, v) == JObj(<<k>>, <<v>>)

\* response.get("results", []) on what a request returned
ResultsOf(r) ==
    IF ~r.ret THEN r
    ELSE LET g == PyGet(r.val, "results", JList(<<>>)) IN
         IF g.ok THEN Returned(r.sent, g.v)
         ELSE Raised(r.sent, NoAttribute(r.val, "get"))

\* list_sites that hands back the response itself.
list_sites_Raw(team_id, resp) ==
    get("/site", IF Truthy(team_id) THEN Dict1("team_id", team_id) ELSE JNull, resp)

list_sites(team_id, resp) ==
    LET params == IF Truthy(team_id) THEN Dict1("team_id", team_id) ELSE JNull
        r == get("/site", params, resp)
    IN  IF ~r.ret THEN r
        ELSE IF IsStr(r.val) THEN r
        ELSE IF IsDict(r.val)
        THEN Returned(r.sent, DictGet(r.val, "results", JList(<<>>)))
        ELSE Returned(r.sent,
                      JStr("Unexpected response format: " \o TypeName(r.val)))

get_site(fqdn, resp) == get("/site/" \o fqdn, JNull, resp)
create_site(site_data, resp) == post("/site", site_data, JNull, resp)
update_site(fqdn, site_data, resp) == patch("/site/" \o fqdn, site_data, JNull, resp)
delete_site(fqdn, resp) == delete("/site/" \o fqdn, JNull, resp)

execute_shell_command(fqdn, command, resp) ==
    post("/site/" \o fqdn \o "/cmd", Dict1("cmd", JStr(command)), JNull, resp)

edit_file(fqdn, file_path, content, resp) ==
    post("/site/" \o fqdn \o "/wpfile_diff_edit",
         JObj(<<"path", "content">>, <<JStr(file_path), JStr(content)>>), JNull, resp)

get_site_events(fqdn, after_datetime, resp) ==
    LET params == IF Truthy(after_datetime)
                  THEN Dict1("after_datetime", after_datetime) ELSE JNull
    IN  ResultsOf(get("/site/" \o fqdn \o "/event", params, resp))

create_staging_site(fqdn, staging_data, resp) ==
    post("/site/" \o fqdn \o "/stage", staging_data, JNull, resp)
\* delete_staging_site sent to the site itself.
delete_staging_site_Site(fqdn, resp) == delete("/site/" \o fqdn, JNull, resp)
delete_staging_site(fqdn, resp) == delete("/site/" \o fqdn \o "/stage", JNull, resp)
commit_staging_site(fqdn, resp) ==
    post("/site/" \o fqdn \o "/stage/commit", JNull, JNull, resp)

get_backup_commits(fqdn, number_to_fetch, resp) ==
    get("/site/" \o fqdn \o "/pit_restore/commits",
        Dict1("number_to_fetch", JNum(number_to_fetch)), resp)
create_restore(fqdn, restore_data, resp) ==
    post("/site/" \o fqdn \o "/pit_restore", restore_data, JNull, resp)
list_restores(fqdn, resp) == ResultsOf(get("/site/" \o fqdn \o "/pit_restore", JNull, resp))

list_external_paths(fqdn, resp) ==
    ResultsOf(get("/site/" \o fqdn \o "/external_path", JNull, resp))
create_external_path(fqdn, path_data, resp) ==
    post("/site/" \o fqdn \o "/external_path", path_data, JNull, resp)
update_external_path(fqdn, path_id, path_data, resp) ==
    patch("/site/" \o fqdn \o "/external_path/" \o path_id, path_data, JNull, resp)
delete_external_path(fqdn, path_id, resp) ==
    delete("/site/" \o fqdn \o "/external_path/" \o path_id, JNull, resp)

wordpress_proxy(proxy_data, resp) == post("/wp-proxy", proxy_data, JNull, resp)
shopify_proxy(proxy_data, resp) == post("/shopify-proxy", proxy_data, JNull, resp)
posthog_proxy(proxy_data, resp) == post("/posthog-proxy", proxy_data, JNull, resp)

list_teams(resp) == ResultsOf(get("/team", JNull, resp))
list_templates(resp) == ResultsOf(get("/template", JNull, resp))
list_regions(resp) == get("/region", JNull, resp)
get_affiliate_referrals(resp) == ResultsOf(get("/account/referred_user", JNull, resp))
create_checkout_session(checkout_data, resp) ==
    post("/create_checkout_session", checkout_data, JNull, resp)

\* The arguments of a client call, one record for every method.
\* Endpoint names as the wrappers and callers write them, each without and
\* with its leading slash; the empty name is the API root.
EndpointNames == {"site", "", "site/x.example.com/cmd"}

Endpoints == EndpointNames \cup {"/" \o e : e \in EndpointNames}

ClientArgs ==
    [fqdn : {"x.example.com"},
     id : {"7"},
     opt : {JNull, JStr("t1")},
     data : {Dict1("k", JStr("v"))},
     text : {"wp plugin list"},
     n : {10},
     method : {"GET", "POST"},
     endpoint : {"/site", "site"}]
        \cup
    [fqdn : {"x.example.com"},
     id : {"7"},
     opt : {JNull},
     data : {Dict1("k", JStr("v"))},
     text : {"wp plugin list"},
     n : {10},
     method : {"GET"},
     endpoint : Endpoints]

ClientMethods ==
    {"_request", "get", "post", "patch", "delete",
     "list_sites", "get_site", "create_site", "update_site", "delete_site",
     "execute_shell_command", "edit_file", "get_site_events",
     "create_staging_site", "delete_staging_site", "commit_staging_site",
     "get_backup_commits", "create_restore", "list_restores",
     "list_external_paths", "create_external_path", "update_external_path",
     "delete_external_path", "wordpress_proxy", "shopify_proxy", "posthog_proxy",
     "list_teams", "list_templates", "list_regions", "get_affiliate_referrals",
     "create_checkout_session"}

\* The methods that are domain wrappers (client.py 235-369).
DomainWrappers == ClientMethods \ {"_request", "get", "post", "patch", "delete"}

\* client.<m>(...) with the arguments a, against an API that answers resp
ClientMethod(m, a, resp) ==
    CASE m = "_request" -> _request(a.method, a.endpoint, a.opt, a.data, resp)
      [] m = "get" -> get(a.endpoint, a.opt, resp)
      [] m = "post" -> post(a.endpoint, a.data, a.opt, resp)
      [] m = "patch" -> patch(a.endpoint, a.data, a.opt, resp)
      [] m = "delete" -> delete(a.endpoint, a.opt, resp)
      [] m = "list_sites" -> list_sites(a.opt, resp)
      [] m = "get_site" -> get_site(a.fqdn, resp)
      [] m = "create_site" -> create_site(a.data, resp)
      [] m = "update_site" -> update_site(a.fqdn, a.data, resp)
      [] m = "delete_site" -> delete_site(a.fqdn, resp)
      [] m = "execute_shell_command" -> execute_shell_command(a.fqdn, a.text, resp)
      [] m = "edit_file" -> edit_file(a.fqdn, a.text, a.text, resp)
      [] m = "get_site_events" -> get_site_events(a.fqdn, a.opt, resp)
      [] m = "create_staging_site" -> create_staging_site(a.fqdn, a.data, resp)
      [] m = "delete_staging_site" -> delete_staging_site(a.fqdn, resp)
      [] m = "commit_staging_site" -> commit_staging_site(a.fqdn, resp)
      [] m = "get_backup_commits" -> get_backup_commits(a.fqdn, a.n, resp)
      [] m = "create_restore" -> create_restore(a.fqdn, a.data, resp)
      [] m = "list_restores" -> list_restores(a.fqdn, resp)
      [] m = "list_external_paths" -> list_external_paths(a.fqdn, resp)
      [] m = "create_external_path" -> create_external_path(a.fqdn, a.data, resp)
      [] m = "update_external_path" -> update_external_path(a.fqdn, a.id, a.data, resp)
      [] m = "delete_external_path" -> delete_external_path(a.fqdn, a.id, resp)
      [] m = "wordpress_proxy" -> wordpress_proxy(a.data, resp)
      [] m = "shopify_proxy" -> shopify_proxy(a.data, resp)
      [] m = "posthog_proxy" -> posthog_proxy(a.data, resp)
      [] m = "list_teams" -> list_teams(resp)
      [] m = "list_templates" -> list_templates(resp)
      [] m = "list_regions" -> list_regions(resp)
      [] m = "get_affiliate_referrals" -> get_affiliate_referrals(resp)
      [] m = "create_checkout_session" -> create_checkout_session(a.data, resp)

-----------------------------------------------------------------------------
(* auth.py                                                                 *)

\* SiteBayAuth._get_token_from_env: os.getenv gives None for an unset variable
_get_token_from_env(env) == IF env = "" THEN JNull ELSE JStr(env)

\* No SiteBayAuth object has been constructed.
NoAuth == [made |-> FALSE, api_token |-> JNull]

\* The SiteBayAuth object whose api_token is the string token.
AuthObject(token) == [made |-> TRUE, api_token |-> JStr(token)]

\* get_headers with the scheme lost: Authorization is the bare token.
get_headers_NoBearer(api_token) ==
    IF ~Truthy(api_token) THEN Raise(AuthenticationError("No API token available"))
    ELSE Val(JObj(<<"Authorization", "Content-Type", "Accept">>,
                  <<JStr(PyStr(api_token)), JStr("application/json"),
                    JStr("application/json")>>))

\* SiteBayAuth.get_headers, of an object whose api_token is the value api_token
get_headers(api_token) ==
    IF ~Truthy(api_token) THEN Raise(AuthenticationError("No API token available"))
    ELSE Val(JObj(<<"Authorization", "Content-Type", "Accept">>,
                  <<JStr("Bearer " \o PyStr(api_token)), JStr("application/json"),
                    JStr("application/json")>>))

\* validate_token with the boundary one character off (<= for <).
validate_token_Boundary21(api_token) ==
    IF ~Truthy(api_token) THEN FALSE
    ELSE IF Len(api_token.s) <= 20 THEN FALSE
    ELSE TRUE

\* SiteBayAuth.validate_token, of an object whose api_token is the value api_token
validate_token(api_token) ==
    IF ~Truthy(api_token) THEN FALSE
    ELSE IF Len(api_token.s) < 20 THEN FALSE
    ELSE TRUE

\* SiteBayAuth.__init__ with the sources swapped: the environment first.
SiteBayAuth_EnvFirst(api_token, env) ==
    LET token == IF Truthy(_get_token_from_env(env)) THEN _get_token_from_env(env)
                 ELSE api_token IN
    IF ~Truthy(token)
    THEN Raise(ConfigurationError(
             "SiteBay API token is required. Set SITEBAY_API_TOKEN environment variable "
                 \o "or pass token directly to the server."))
    ELSE Val(token.s)

\* SiteBayAuth.__init__: the token held, or ConfigurationError
SiteBayAuth(api_token, env) ==
    LET token == IF Truthy(api_token) THEN api_token ELSE _get_token_from_env(env) IN
    IF ~Truthy(token)
    THEN Raise(ConfigurationError(
             "SiteBay API token is required. Set SITEBAY_API_TOKEN environment variable "
                 \o "or pass token directly to the server."))
    ELSE Val(token.s)

-----------------------------------------------------------------------------
(* tools/sites.py, tools/operations.py, server.py: the tools.  What a tool *)
(* invocation gives its caller is a string (tagged with the return         *)
(* statement that produced it) or an exception that propagates.  The text  *)
(* of a rendered listing is modelled up to its header line.                *)

Str(form, text) == [kind |-> "string", form |-> form, text |-> text, e |-> NoExc]
Propagates(e) == [kind |-> "exception", form |-> "", text |-> "", e |-> e]

Tools ==
    {"sitebay_list_sites", "sitebay_create_site", "sitebay_update_site",
     "sitebay_delete_site", "sitebay_site_get_events",
     "sitebay_site_external_path_list", "sitebay_list_regions",
     "sitebay_list_templates"}

DefaultArgs ==
    [fqdn |-> "x.example.com", confirm |-> FALSE, team_id |-> JNull,
     wp_title |-> JNull, after_datetime |-> JNull, limit |-> 20]

\* The arguments a tool is invoked with.
ToolArgs(tool) ==
    CASE tool = "sitebay_list_sites" ->
            {[DefaultArgs EXCEPT !.team_id = t] : t \in {JNull, JStr("t1")}}
      [] tool = "sitebay_create_site" ->
            {[DefaultArgs EXCEPT !.fqdn = f] : f \in {"x.example.com", "localhost", ""}}
      [] tool = "sitebay_update_site" ->
            {[DefaultArgs EXCEPT !.wp_title = t] : t \in {JNull, JStr("New")}}
      [] tool = "sitebay_delete_site" ->
            {[DefaultArgs EXCEPT !.confirm = c, !.fqdn = f] :
                c \in BOOLEAN, f \in {"x.example.com", "shop.example.org"}}
      [] OTHER -> {DefaultArgs}

Awaits == [done |-> FALSE, out |-> Str("", "")]
Done(out) == [done |-> TRUE, out |-> out]

\* sites.py 131-137: the site_data of sitebay_create_site
CreateSiteData(fqdn) ==
    JObj(<<"fqdn", "wp_title", "wp_username", "wp_password", "wp_email">>,
         <<JStr(fqdn), JStr("Blog"), JStr("admin"), JStr("s3cret"),
           JStr("admin@example.com")>>)

\* What a tool does with the client it was handed, up to its await of a client
\* method: it finishes, or awaits the method (see ToolCall).
ToolStart(tool, args) ==
    CASE tool = "sitebay_create_site" ->
            \* server.py 145-146
            IF Len(args.fqdn) = 0 \/ ~Contains(args.fqdn, ".")
            THEN Done(Propagates(Builtin("ValueError", "Invalid domain name provided")))
            ELSE Awaits
      [] tool = "sitebay_update_site" ->
            \* sites.py 188-202
            IF ~Truthy(args.wp_title)
            THEN Done(Str("no_updates",
                     "No updates specified. Please provide at least one field to update."))
            ELSE Awaits
      [] tool = "sitebay_delete_site" ->
            \* sites.py 242-252
            IF ~args.confirm
            THEN Done(Str("confirmation_required",
                     "[!]  **CONFIRMATION REQUIRED**\n\n"
                       \o "You are about to permanently delete the site: **"
                       \o args.fqdn \o "**\n\n"
                       \o "This action will:\n"
                       \o "* Delete all website files and content\n"
                       \o "* Delete the database and all data\n"
                       \o "* Remove any staging sites\n"
                       \o "* Cannot be undone\n\n"
                       \o "To proceed with deletion, call this function again with confirm=True"))
            ELSE Awaits
      [] OTHER -> Awaits

\* The client method the tool awaits, answered by resp.
ToolCall(tool, args, resp) ==
    CASE tool = "sitebay_list_sites" -> list_sites(args.team_id, resp)
      [] tool = "sitebay_create_site" -> create_site(CreateSiteData(args.fqdn), resp)
      [] tool = "sitebay_update_site" ->
            update_site(args.fqdn, Dict1("wp_title", args.wp_title), resp)
      [] tool = "sitebay_delete_site" -> delete_site(args.fqdn, resp)
      [] tool = "sitebay_site_get_events" ->
            get_site_events(args.fqdn, args.after_datetime, resp)
      [] tool = "sitebay_site_external_path_list" -> list_external_paths(args.fqdn, resp)
      [] tool = "sitebay_list_regions" -> list_regions(resp)
      [] tool = "sitebay_list_templates" -> list_templates(resp)

\* except SiteBayError as e: return f"{prefix}{str(e)}" around a client call
\* that raised e; any other exception propagates.
ExceptSiteBayError(e, prefix) ==
    IF IsSiteBayError(e) THEN Str("error", prefix \o e.msg) ELSE Propagates(e)

\* len(v) and then `for x in v: x.get(...)`: the exception raised, if any
LenAndGetEach(v) ==
    IF v.t \in {"null", "bool", "num"}
    THEN Raise(Builtin("TypeError", "object of type '" \o TypeName(v) \o "' has no len()"))
    ELSE LET xs == PyIter(v).v IN
         IF \E i \in 1..Len(xs) : ~IsDict(xs[i])
         THEN Raise(NoAttribute(xs[CHOOSE i \in 1..Len(xs) :
                                     ~IsDict(xs[i]) /\ \A j \in 1..(i - 1) : IsDict(xs[j])],
                                "get"))
         ELSE Val(Len(xs))

\* v.get(...) on what a client call returned, as the renderers of a single
\* object do first
GetOn(v) == IF IsDict(v) THEN Val(v) ELSE Raise(NoAttribute(v, "get"))

\* What a tool does once the client method it awaited has returned or raised r.
ToolFinish(tool, args, r) ==
    CASE tool = "sitebay_list_sites" ->
            \* sites.py 28-57
            IF ~r.ret THEN ExceptSiteBayError(r.e, "Error listing sites: ")
            ELSE IF IsStr(r.val) THEN Str("error", "Error listing sites: " \o r.val.s)
            ELSE IF ~IsList(r.val) \/ \E i \in 1..Len(r.val.xs) : ~IsDict(r.val.xs[i])
            THEN Str("unexpected",
                     "Unexpected response format when listing sites: " \o PyStr(r.val))
            ELSE IF ~Truthy(r.val) THEN Str("empty", "No sites found for your account.")
            ELSE Str("listing", "Found " \o ToString(Len(r.val.xs)) \o " site(s):\n\n")
      [] tool = "sitebay_create_site" ->
            \* sites.py 146-161
            IF ~r.ret THEN ExceptSiteBayError(r.e, "Error creating site: ")
            ELSE IF ~GetOn(r.val).ok THEN Propagates(GetOn(r.val).exc)
            ELSE Str("created", "[OK] **Site Created Successfully!**\n\n")
      [] tool = "sitebay_update_site" ->
            \* sites.py 204-224
            IF ~r.ret THEN ExceptSiteBayError(r.e, "Error updating site: ")
            ELSE IF ~GetOn(r.val).ok THEN Propagates(GetOn(r.val).exc)
            ELSE Str("updated", "[OK] **Site Updated Successfully!**\n\n")
      [] tool = "sitebay_delete_site" ->
            \* sites.py 254-263
            IF ~r.ret THEN ExceptSiteBayError(r.e, "Error deleting site: ")
            ELSE Str("deleted",
                     "[OK] **Site Deleted Successfully**\n\n" \o "The site " \o args.fqdn
                       \o " has been permanently deleted.")
      [] tool = "sitebay_site_get_events" ->
            \* operations.py 99-128
            IF ~r.ret
            THEN ExceptSiteBayError(r.e, "Error getting events for " \o args.fqdn \o ": ")
            ELSE IF ~Truthy(r.val)
            THEN Str("empty", "No events found for " \o args.fqdn \o ".")
            ELSE IF r.val.t \in {"bool", "num"}
            THEN Propagates(Builtin("TypeError",
                                    "'" \o TypeName(r.val) \o "' object is not subscriptable"))
            ELSE IF IsDict(r.val)
            THEN \* events[:limit] on a dict (KeyError instead from Python 3.12 on)
                 Propagates(Builtin("TypeError", "unhashable type: 'slice'"))
            ELSE IF ~LenAndGetEach(r.val).ok THEN Propagates(LenAndGetEach(r.val).exc)
            ELSE IF \E i \in 1..Len(r.val.xs) :
                       LET metadata == DictGet(r.val.xs[i], "metadata", JNull) IN
                       Truthy(metadata) /\ ~IsDict(metadata)
            THEN Propagates(Builtin("AttributeError", "object has no attribute 'items'"))
            ELSE Str("listing", "**Recent Events for " \o args.fqdn \o "**")
      [] tool = "sitebay_site_external_path_list" ->
            \* operations.py 145-164
            IF ~r.ret
            THEN ExceptSiteBayError(r.e,
                                    "Error listing external paths for " \o args.fqdn \o ": ")
            ELSE IF ~Truthy(r.val)
            THEN Str("empty", "No external paths configured for " \o args.fqdn \o ".")
            ELSE IF PyIter(r.val).ok /\ LenAndGetEach(r.val).ok
            THEN Str("listing", "**External Paths for " \o args.fqdn \o "**:\n\n")
            ELSE IF ~PyIter(r.val).ok
            THEN Propagates(Builtin("TypeError",
                                    "'" \o TypeName(r.val) \o "' object is not iterable"))
            ELSE Propagates(LenAndGetEach(r.val).exc)
      [] tool = "sitebay_list_regions" ->
            \* server.py 333-350; the except clause is the server's (see ServerExcept)
            IF ~r.ret THEN Propagates(r.e)
            ELSE IF ~Truthy(r.val) THEN Str("empty", "No regions available.")
            ELSE IF ~LenAndGetEach(r.val).ok THEN Propagates(LenAndGetEach(r.val).exc)
            ELSE Str("listing", "**Available Hosting Regions** ("
                                  \o ToString(LenAndGetEach(r.val).v) \o " regions):\n\n")
      [] tool = "sitebay_list_templates" ->
            \* server.py 366-385; the except clause is the server's (see ServerExcept)
            IF ~r.ret THEN Propagates(r.e)
            ELSE IF ~Truthy(r.val) THEN Str("empty", "No templates available.")
            ELSE IF ~LenAndGetEach(r.val).ok THEN Propagates(LenAndGetEach(r.val).exc)
            ELSE Str("listing", "**Available Site Templates** ("
                                  \o ToString(LenAndGetEach(r.val).v) \o " templates):\n\n")

\* The except clauses of the tool's function in server.py, in order: the
\* exception class caught and the prefix of the string returned.
ServerHandlers(tool) ==
    CASE tool = "sitebay_list_sites" ->
            <<<<"SiteBayError", "[X] SiteBay Error: ">>,
              <<"ValueError", "[X] Validation Error: ">>,
              <<"Exception", "[X] Unexpected error: ">>>>
      [] tool = "sitebay_create_site" ->
            <<<<"ValueError", "[X] Validation Error: ">>,
              <<"ValidationError", "[X] Validation Error - Please check your input:\n">>,
              <<"SiteBayError", "[X] SiteBay Error: ">>,
              <<"Exception", "[X] Unexpected error: ">>>>
      [] tool = "sitebay_list_regions" -> <<<<"SiteBayError", "Error listing regions: ">>>>
      [] tool = "sitebay_list_templates" ->
            <<<<"SiteBayError", "Error listing templates: ">>>>
      [] OTHER -> <<>>

\* isinstance(e, class)
IsInstance(e, class) ==
    \/ class = "Exception"
    \/ class = "SiteBayError" /\ IsSiteBayError(e)
    \/ class = e.exc

RECURSIVE FieldErrorLines(_, _)
\* server.py 169-170
FieldErrorLines(ks, vs) ==
    IF Len(ks) = 0 THEN ""
    ELSE "  * " \o Head(ks) \o ": " \o PyStr(Head(vs)) \o "\n"
           \o FieldErrorLines(Tail(ks), Tail(vs))

\* The string an except clause of server.py returns for the exception e.
HandlerString(class, prefix, e) ==
    IF class = "ValidationError"
    THEN \* server.py 165-173
         Str("validation_detail",
             prefix \o e.msg \o "\n"
               \o (IF Truthy(e.field_errors)
                   THEN "\nSpecific field errors:\n"
                          \o FieldErrorLines(e.field_errors.ks, e.field_errors.vs)
                   ELSE "")
               \o "\nPlease adjust your parameters and try again.")
    ELSE Str("server_error", prefix \o e.msg)

\* What leaves the tool's function in server.py when its body ended with out.
ServerExcept(tool, out) ==
    LET hs == ServerHandlers(tool) IN
    IF out.kind = "string" THEN out
    ELSE IF \E k \in 1..Len(hs) : IsInstance(out.e, hs[k][1])
    THEN LET k == CHOOSE k \in 1..Len(hs) :
                      /\ IsInstance(out.e, hs[k][1])
                      /\ \A j \in 1..(k - 1) : ~IsInstance(out.e, hs[j][1])
         IN  HandlerString(hs[k][1], hs[k][2], out.e)
    ELSE out

-----------------------------------------------------------------------------
(* The state after the module is imported, and the specification of the    *)
(* client alone: any method of a constructed client, called with any       *)
(* arguments, against any answer of the API.                               *)

Token == "aaaaaaaaaaaaaaaaaaaaaaaaa"

NoCall == [m |-> "", pending |-> FALSE]
NoLast == [tool |-> ""]

InitClient ==
    /\ envToken = Token
    /\ sitebay_client = 1
    /\ constructed = 1
    /\ probed = {1}
    /\ mainpc = "serving"
    /\ atexit = <<"cleanup">>
    /\ closeCalls = 0
    /\ inv = <<>>
    /\ last = NoLast
    /\ call = NoCall
    /\ auth = AuthObject(Token)
    /\ clientHeaders = get_headers(JStr(Token)).v

\* A caller awaits client.<m>(...): the request goes out.
ClientCall(m, a) ==
    /\ sitebay_client # 0
    /\ call.m = "" \/ ~call.pending
    /\ call' = [m |-> m, args |-> a, pending |-> TRUE]
    /\ UNCHANGED <<auth, clientHeaders, envToken, sitebay_client, constructed, probed, mainpc, atexit,
                   closeCalls, inv, last>>

\* The transport answers, and the awaited method returns or raises.
ClientAnswer(resp) ==
    /\ call.m # "" /\ call.pending
    /\ call' = [m |-> call.m, args |-> call.args, pending |-> FALSE, resp |-> resp,
                res |-> ClientMethod(call.m, call.args, resp)]
    /\ UNCHANGED <<auth, clientHeaders, envToken, sitebay_client, constructed, probed, mainpc, atexit,
                   closeCalls, inv, last>>

\* The call made last has completed.
Called == call.m # "" /\ ~call.pending

NextClient ==
    \/ \E m \in ClientMethods, a \in ClientArgs : ClientCall(m, a)
    \/ \E resp \in Responses : ClientAnswer(resp)

SpecClient == InitClient /\ [][NextClient]_vars

-----------------------------------------------------------------------------
(* The specification of repeated reads: one client, a backing data set that *)
(* does not change (what GET /site is answered with), and callers that     *)
(* list the sites again and again with other calls, successful or failing, *)
(* in between.  `last` remembers the backing data set and, for each        *)
(* team_id, the outcome of the first list_sites call.                      *)

\* What the remote API answers GET /site with, while its data is unchanged.
BackingData ==
    {Response(200, 1), Response(200, 3), Response(200, 4), Response(200, 8),
     Response(503, 8), Response(401, 10), TransportFailure("timed out")}

\* The answers to the calls made in between.
OtherAnswers ==
    {Response(200, 2), Response(404, 3), Response(422, 11), Response(500, 8),
     TransportFailure("timed out")}

InitIdempotent ==
    /\ envToken = Token
    /\ sitebay_client = 1
    /\ constructed = 1
    /\ probed = {1}
    /\ mainpc = "serving"
    /\ atexit = <<"cleanup">>
    /\ closeCalls = 0
    /\ inv = <<>>
    /\ call = NoCall
    /\ auth = AuthObject(Token)
    /\ clientHeaders = get_headers(JStr(Token)).v
    /\ \E b \in BackingData :
           last = [tool |-> "", backing |-> b, first |-> [t \in {JNull, JStr("t1")} |-> <<>>]]

\* AnswerFrom with a client that keeps the parsed body of its previous
\* response and serves it again.
AnswerFrom_Cached(resp) ==
    /\ call.m # "" /\ call.pending
    /\ call.m = "list_sites" => resp = last.backing
    /\ LET served == IF call.m = "list_sites" /\ "prev" \in DOMAIN call
                     THEN call.prev ELSE resp
           res == ClientMethod(call.m, call.args, served)
       IN  /\ call' = [m |-> call.m, args |-> call.args, pending |-> FALSE,
                       resp |-> resp, res |-> res, prev |-> resp]
           /\ last' = IF call.m = "list_sites" /\ last.first[call.args.opt] = <<>>
                      THEN [last EXCEPT !.first[call.args.opt] = <<res>>]
                      ELSE last
    /\ UNCHANGED <<auth, clientHeaders, envToken, sitebay_client, constructed, probed,
                   mainpc, atexit, closeCalls, inv>>

\* The transport answers the pending call: GET /site from the backing data
\* set, any other request with any answer; the awaited method returns or
\* raises (client.py 140-250).  `prev` is the answer the transport gave, which
\* the client does not keep.
AnswerFrom(resp) ==
    /\ call.m # "" /\ call.pending
    /\ call.m = "list_sites" => resp = last.backing
    /\ LET res == ClientMethod(call.m, call.args, resp)
       IN  /\ call' = [m |-> call.m, args |-> call.args, pending |-> FALSE,
                       resp |-> resp, res |-> res, prev |-> resp]
           /\ last' = IF call.m = "list_sites" /\ last.first[call.args.opt] = <<>>
                      THEN [last EXCEPT !.first[call.args.opt] = <<res>>]
                      ELSE last
    /\ UNCHANGED <<auth, clientHeaders, envToken, sitebay_client, constructed, probed,
                   mainpc, atexit, closeCalls, inv>>

\* A caller awaits the next call on the same client.
CallAgain(m, a) ==
    /\ sitebay_client # 0
    /\ call.m = "" \/ ~call.pending
    /\ call' = IF "prev" \in DOMAIN call
               THEN [m |-> m, args |-> a, pending |-> TRUE, prev |-> call.prev]
               ELSE [m |-> m, args |-> a, pending |-> TRUE]
    /\ UNCHANGED <<auth, clientHeaders, envToken, sitebay_client, constructed, probed,
                   mainpc, atexit, closeCalls, inv, last>>

NextIdempotent ==
    \/ \E m \in {"list_sites", "get_site", "create_site", "delete_site", "get_site_events"},
          a \in {x \in ClientArgs : x.method = "GET" /\ x.endpoint = "/site"} :
          CallAgain(m, a)
    \/ \E resp \in BackingData \cup OtherAnswers : AnswerFrom(resp)

SpecIdempotent == InitIdempotent /\ [][NextIdempotent]_vars

-----------------------------------------------------------------------------
(* The specification of validation errors: a client that posts and patches *)
(* and is answered 422 with every structured body.                         *)

NextValidation ==
    \/ \E m \in {"post", "patch", "create_site"},
          a \in {x \in ClientArgs :
                    x.opt = JNull /\ x.method = "POST" /\ x.endpoint = "/site"} :
          ClientCall(m, a)
    \/ \E resp \in ValidationResponses : ClientAnswer(resp)

SpecValidation == InitClient /\ [][NextValidation]_vars

-----------------------------------------------------------------------------
(* The specification of the authenticator alone: constructed with or       *)
(* without an explicit token, in any environment, and then asked for its   *)
(* headers and for the well-formedness of its token.                       *)

MaxTokenLen == 21

RECURSIVE Repeat(_, _)
\* c * n
Repeat(c, n) == IF n = 0 THEN "" ELSE c \o Repeat(c, n - 1)

\* The values of SITEBAY_API_TOKEN; "" is the variable unset (or empty).
EnvTokens == {Repeat("e", n) : n \in 0..MaxTokenLen}

\* The api_token argument of SiteBayAuth: None, or a string.
ExplicitTokens == {JNull} \cup {JStr(Repeat("x", n)) : n \in 0..MaxTokenLen}

InitAuth ==
    /\ envToken \in EnvTokens
    /\ sitebay_client = 0
    /\ constructed = 0
    /\ probed = {}
    /\ mainpc = "init"
    /\ atexit = <<>>
    /\ closeCalls = 0
    /\ inv = <<>>
    /\ last = NoLast
    /\ call = NoCall
    /\ auth = NoAuth
    /\ clientHeaders = EmptyDict

\* SiteBayAuth(api_token) has returned or raised r.
Constructed(api_token, r) ==
    /\ auth' = IF r.ok THEN AuthObject(r.v) ELSE auth
    /\ call' = [m |-> "SiteBayAuth", args |-> api_token, pending |-> FALSE, res |-> r]

\* auth = SiteBayAuth(api_token)
AuthConstruct(api_token) ==
    /\ ~auth.made
    /\ call = NoCall
    /\ Constructed(api_token, SiteBayAuth(api_token, envToken))
    /\ UNCHANGED <<envToken, sitebay_client, constructed, probed, mainpc, atexit,
                   closeCalls, inv, last, clientHeaders>>

\* auth.get_headers()
AuthGetHeaders ==
    /\ auth.made
    /\ call' = [m |-> "get_headers", args |-> JNull, pending |-> FALSE,
                res |-> get_headers(auth.api_token)]
    /\ UNCHANGED <<auth, clientHeaders, envToken, sitebay_client, constructed, probed,
                   mainpc, atexit, closeCalls, inv, last>>

\* auth.validate_token()
AuthValidateToken ==
    /\ auth.made
    /\ call' = [m |-> "validate_token", args |-> JNull, pending |-> FALSE,
                res |-> validate_token(auth.api_token)]
    /\ UNCHANGED <<auth, clientHeaders, envToken, sitebay_client, constructed, probed,
                   mainpc, atexit, closeCalls, inv, last>>

NextAuth ==
    \/ \E api_token \in ExplicitTokens : AuthConstruct(api_token)
    \/ AuthGetHeaders
    \/ AuthValidateToken

SpecAuth == InitAuth /\ [][NextAuth]_vars

-----------------------------------------------------------------------------
(* server.py: the process.  main() registers the cleanup and runs the      *)
(* server; tool invocations are coroutines on the server's one event loop, *)
(* so a step of an invocation runs from one await to the next without      *)
(* interleaving.                                                           *)

MaxInv == 2

Slots == 1..MaxInv

Idle == [pc |-> "idle", tool |-> "", args |-> DefaultArgs, client |-> 0, wire |-> <<>>]

Init ==
    /\ envToken \in {"", Token}
    /\ sitebay_client = 0
    /\ constructed = 0
    /\ probed = {}
    /\ mainpc = "init"
    /\ atexit = <<>>
    /\ closeCalls = 0
    /\ inv = [i \in Slots |-> Idle]
    /\ last = NoLast
    /\ call = NoCall
    /\ auth = NoAuth
    /\ clientHeaders = EmptyDict

\* server.py 35: under `global sitebay_client`, the assignment of the client
\* just constructed stores it in the module's global.
AssignGlobal_Local(fresh) == 0
AssignGlobal(fresh) == fresh

\* server.py 42-43: every exception of the try block becomes ConfigurationError
InitializeFailure(e) ==
    ConfigurationError("Failed to initialize SiteBay client: " \o e.msg)

BASE_URL == "https://my.sitebay.org"

\* The request httpx sends for req: the URL is joined to base_url and the
\* client's default headers are attached (client.py 27-31).
Outbound(req, headers) ==
    [method |-> req.method, url |-> BASE_URL \o req.url, headers |-> headers,
     params |-> req.params, json |-> req.json]

Wire(sent, headers) == [k \in 1..Len(sent) |-> Outbound(sent[k], headers)]

\* The invocation in slot i ends: its caller gets out.  sent and resps are the
\* requests of the tool's own client call and their answers; the requests
\* that left the process for this invocation are before (the probe) and sent.
Complete(i, tool, args, initError, client, before, sent, resps, out) ==
    /\ inv' = [inv EXCEPT ![i] = Idle]
    /\ last' = [tool |-> tool, args |-> args, initError |-> initError,
                client |-> client, sent |-> sent, resps |-> resps, out |-> out,
                wire |-> before \o Wire(sent, clientHeaders)]

\* initialize_client has returned client to the tool in slot i: the tool runs
\* to its first await of a client method, or to its end.
Proceed(i, tool, args, client, before) ==
    LET start == ToolStart(tool, args) IN
    IF start.done
    THEN Complete(i, tool, args, FALSE, client, before, <<>>, <<>>,
                  ServerExcept(tool, start.out))
    ELSE /\ inv' = [inv EXCEPT ![i] = [pc |-> "request", tool |-> tool, args |-> args,
                                       client |-> client, wire |-> before]]
         /\ UNCHANGED last

\* SiteBayClient.__init__ without headers=: the httpx client has no defaults.
SiteBayClientInit_NoHeaders(made) == Val(EmptyDict)

\* client.py 25-31: SiteBayClient.__init__ computes the default headers of its
\* httpx.AsyncClient from the authenticator, once.
SiteBayClientInit(made) == get_headers(made.api_token)

\* server.py 33-38: the client is constructed around the authenticator made,
\* stored in the global, and the probe is awaited.
Construct(i, tool, args, made) ==
    /\ constructed' = constructed + 1
    /\ sitebay_client' = AssignGlobal(constructed + 1)
    /\ auth' = made
    /\ clientHeaders' = SiteBayClientInit(made).v
    /\ inv' = [inv EXCEPT ![i] = [pc |-> "probe", tool |-> tool, args |-> args,
                                  client |-> constructed + 1, wire |-> <<>>]]
    /\ UNCHANGED last

\* server.py 40-41: initialize_client raises before its first await.
FailToInitialize(i, tool, args, e) ==
    /\ Complete(i, tool, args, TRUE, 0, <<>>, <<>>, <<>>,
                ServerExcept(tool, Propagates(InitializeFailure(e))))
    /\ UNCHANGED <<sitebay_client, constructed, auth, clientHeaders>>

\* server.py 33-34: SiteBayAuth() has returned or raised r.
Authenticated(i, tool, args, r) ==
    IF ~r.ok THEN FailToInitialize(i, tool, args, r.exc)
    ELSE IF ~SiteBayClientInit(AuthObject(r.v)).ok
    THEN FailToInitialize(i, tool, args, SiteBayClientInit(AuthObject(r.v)).exc)
    ELSE Construct(i, tool, args, AuthObject(r.v))

\* A tool is invoked: its function in server.py runs up to its first await
\* that suspends (server.py 31-38 for the first invocation).
Invoke(i, tool, args) ==
    /\ mainpc = "serving"
    /\ inv[i].pc = "idle"
    /\ IF sitebay_client # 0
       THEN /\ Proceed(i, tool, args, sitebay_client, <<>>)
            /\ UNCHANGED <<sitebay_client, constructed, auth, clientHeaders>>
       ELSE Authenticated(i, tool, args, SiteBayAuth(JNull, envToken))
    /\ UNCHANGED <<envToken, probed, mainpc, atexit, closeCalls, call>>

\* server.py 38-45: the probe of initialize_client has returned or raised r.
Probed(i, r) ==
    IF r.ret
    THEN /\ probed' = probed \cup {inv[i].client}
         /\ Proceed(i, inv[i].tool, inv[i].args, sitebay_client,
                    Wire(r.sent, clientHeaders))
    ELSE /\ probed' = probed
         /\ Complete(i, inv[i].tool, inv[i].args, TRUE, 0, Wire(r.sent, clientHeaders),
                     <<>>, <<>>,
                     ServerExcept(inv[i].tool, Propagates(InitializeFailure(r.e))))

\* server.py 38-43: the API answers the probe of initialize_client.
ProbeAnswer(i, resp) ==
    /\ mainpc = "serving"
    /\ inv[i].pc = "probe"
    /\ Probed(i, list_regions(resp))
    /\ UNCHANGED <<auth, clientHeaders, envToken, sitebay_client, constructed, mainpc, atexit, closeCalls,
                   call>>

\* The client call of the tool in slot i has returned or raised r.
Finish(i, tool, args, client, resp, r) ==
    Complete(i, tool, args, FALSE, client, inv[i].wire, r.sent, <<resp>>,
             ServerExcept(tool, ToolFinish(tool, args, r)))

\* The API answers the client call the tool in slot i awaits.
Answer(i, resp) ==
    /\ mainpc = "serving"
    /\ inv[i].pc = "request"
    /\ Finish(i, inv[i].tool, inv[i].args, inv[i].client, resp,
              ToolCall(inv[i].tool, inv[i].args, resp))
    /\ UNCHANGED <<auth, clientHeaders, envToken, sitebay_client, constructed, probed, mainpc, atexit,
                   closeCalls, call>>

\* server.py 870-874: cleanup(), by the number of close() calls made
cleanup(client, closes) == IF client # 0 THEN closes + 1 ELSE closes

\* server.py 882: what main() registers with atexit
Registered_Nothing(callbacks) == callbacks
Registered(callbacks) == Append(callbacks, "cleanup")

\* server.py 879-885: main() up to mcp.run()
Startup ==
    /\ mainpc = "init"
    /\ atexit' = Registered(atexit)
    /\ mainpc' = "serving"
    /\ UNCHANGED <<auth, clientHeaders, envToken, sitebay_client, constructed, probed, closeCalls, inv, last,
                   call>>

\* mcp.run() returns (the transport was closed) and main() returns with it;
\* the event loop and the invocations on it are gone.
RunReturns ==
    /\ mainpc = "serving"
    /\ mainpc' = "returned"
    /\ inv' = [i \in Slots |-> Idle]
    /\ UNCHANGED <<auth, clientHeaders, envToken, sitebay_client, constructed, probed, atexit, closeCalls,
                   last, call>>

\* server.py 887-890: KeyboardInterrupt out of mcp.run()
KeyboardInterrupt ==
    /\ mainpc = "serving"
    /\ closeCalls' = cleanup(sitebay_client, closeCalls)
    /\ mainpc' = "sys.exit(0)"
    /\ inv' = [i \in Slots |-> Idle]
    /\ UNCHANGED <<auth, clientHeaders, envToken, sitebay_client, constructed, probed, atexit, last, call>>

\* server.py 891-893: any other exception out of mcp.run()
RunFails ==
    /\ mainpc = "serving"
    /\ mainpc' = "sys.exit(1)"
    /\ inv' = [i \in Slots |-> Idle]
    /\ UNCHANGED <<auth, clientHeaders, envToken, sitebay_client, constructed, probed, atexit, closeCalls,
                   last, call>>

RECURSIVE RunAtexit(_, _, _)
\* The interpreter runs the registered callbacks, last registered first.
RunAtexit(callbacks, client, closes) ==
    IF Len(callbacks) = 0 THEN closes
    ELSE RunAtexit(SubSeq(callbacks, 1, Len(callbacks) - 1), client,
                   cleanup(client, closes))

\* The interpreter exits (return of main, or SystemExit of sys.exit).
Exit ==
    /\ mainpc \in {"returned", "sys.exit(0)", "sys.exit(1)"}
    /\ closeCalls' = RunAtexit(atexit, sitebay_client, closeCalls)
    /\ mainpc' = "exited"
    /\ UNCHANGED <<auth, clientHeaders, envToken, sitebay_client, constructed, probed, atexit, inv, last,
                   call>>

\* The answers of the API the process model is checked against.
ServedResponses ==
    {Response(200, 4), Response(200, 2), Response(401, 10), TransportFailure("timed out")}

\* The tools invoked concurrently in the process model: one for each way the
\* functions of server.py treat an exception.
ServedTools == {"sitebay_list_sites", "sitebay_update_site", "sitebay_list_regions"}

Next ==
    \/ Startup
    \/ \E i \in Slots, tool \in ServedTools : \E args \in ToolArgs(tool) :
           Invoke(i, tool, args)
    \/ \E i \in Slots, resp \in ServedResponses : ProbeAnswer(i, resp)
    \/ \E i \in Slots, resp \in ServedResponses : Answer(i, resp)
    \/ RunReturns
    \/ KeyboardInterrupt
    \/ RunFails
    \/ Exit

Spec == Init /\ [][Next]_vars

\* One tool invocation at a time, any tool, against any answer of the API.
NextTool ==
    \/ Startup
    \/ \E tool \in Tools : \E args \in ToolArgs(tool) : Invoke(1, tool, args)
    \/ \E resp \in Responses : ProbeAnswer(1, resp)
    \/ \E resp \in Responses : Answer(1, resp)

SpecTool == Init /\ [][NextTool]_vars

-----------------------------------------------------------------------------
(* resources.py: the account-summary resource.  An invocation is a         *)
(* coroutine: it issues a request, is suspended while the request is in    *)
(* flight, and runs on when the answer arrives.  Invocations in different  *)
(* slots interleave at these awaits.  The summary is modelled up to its    *)
(* account_overview.                                                       *)

\* The answers to the requests of the resource.
SummaryAnswers ==
    {Response(200, 1), Response(200, 4), Response(404, 3), TransportFailure("timed out")}

\* resources.py 129-132: the k-th client call of the resource, answered resp
SummaryCall(k, resp) ==
    CASE k = 1 -> list_sites(JNull, resp)
      [] k = 2 -> list_teams(resp)
      [] k = 3 -> list_regions(resp)
      [] k = 4 -> list_templates(resp)

\* The request the k-th client call hands to the transport.
SummaryRequest(k) ==
    [req |-> SummaryCall(k, TransportFailure("")).sent[1], done |-> FALSE]

SummaryIdle == [pc |-> "idle", wire |-> <<>>, vals |-> <<>>, out |-> Str("", "")]

\* len(v): TypeError for a value without a length
PyLen(v) ==
    CASE v.t = "str" -> Val(Len(v.s))
      [] v.t = "list" -> Val(Len(v.xs))
      [] v.t = "obj" -> Val(Len(v.ks))
      [] OTHER -> Raise(Builtin("TypeError",
                                "object of type '" \o TypeName(v) \o "' has no len()"))

\* get_account_summary_resource with calls that are not awaited one by one:
\* all four requests are issued at once.
SummaryStart_Gather(i) ==
    /\ sitebay_client # 0
    /\ inv[i].pc = "idle"
    /\ inv' = [inv EXCEPT ![i] =
                  [pc |-> "await",
                   wire |-> [k \in 1..4 |-> SummaryRequest(k)],
                   vals |-> <<>>, out |-> Str("", "")]]
    /\ UNCHANGED <<auth, clientHeaders, envToken, sitebay_client, constructed, probed,
                   mainpc, atexit, closeCalls, last, call>>

\* resources.py 123-129: the resource is read; initialize_client returns the
\* client the process has, and list_sites issues its request.
SummaryStart(i) ==
    /\ sitebay_client # 0
    /\ inv[i].pc = "idle"
    /\ inv' = [inv EXCEPT ![i] =
                  [pc |-> "await", wire |-> <<SummaryRequest(1)>>,
                   vals |-> <<>>, out |-> Str("", "")]]
    /\ UNCHANGED <<auth, clientHeaders, envToken, sitebay_client, constructed, probed,
                   mainpc, atexit, closeCalls, last, call>>

\* resources.py 134-171: the summary of the four values, or the exception
\* raised on the way; only a SiteBayError is caught.
Summary(vals) ==
    LET sites == LenAndGetEach(vals[1])
        teams == PyLen(vals[2])
        regions == PyLen(vals[3])
        templates == PyLen(vals[4])
    IN  IF ~PyLen(vals[1]).ok THEN Propagates(PyLen(vals[1]).exc)
        ELSE IF ~teams.ok THEN Propagates(teams.exc)
        ELSE IF ~regions.ok THEN Propagates(regions.exc)
        ELSE IF ~templates.ok THEN Propagates(templates.exc)
        ELSE IF ~sites.ok THEN Propagates(sites.exc)
        ELSE Str("summary",
                 JsonText(JObj(<<"total_sites", "total_teams", "available_regions",
                                 "available_templates">>,
                               <<JNum(sites.v), JNum(teams.v), JNum(regions.v),
                                 JNum(templates.v)>>)))

\* What the invocation in slot i does when its request in flight is answered
\* and the awaited client call has returned or raised r.
SummaryResumed(i, r) ==
    LET k == Len(inv[i].wire)
        wire == [inv[i].wire EXCEPT ![k].done = TRUE]
    IN  IF ~r.ret
        THEN \* resources.py 169-171, or the exception propagates
             inv' = [inv EXCEPT ![i] =
                        [pc |-> "done", wire |-> wire, vals |-> inv[i].vals,
                         out |-> ExceptSiteBayError(r.e, "Error: ")]]
        ELSE IF k < 4
        THEN inv' = [inv EXCEPT ![i] =
                        [pc |-> "await", wire |-> Append(wire, SummaryRequest(k + 1)),
                         vals |-> Append(inv[i].vals, r.val), out |-> Str("", "")]]
        ELSE inv' = [inv EXCEPT ![i] =
                        [pc |-> "done", wire |-> wire, vals |-> Append(inv[i].vals, r.val),
                         out |-> Summary(Append(inv[i].vals, r.val))]]

\* The transport answers the request the invocation in slot i is waiting for.
SummaryAnswer(i, resp) ==
    /\ inv[i].pc = "await"
    /\ \E k \in 1..Len(inv[i].wire) : ~inv[i].wire[k].done
    /\ SummaryResumed(i, SummaryCall(Len(inv[i].wire), resp))
    /\ UNCHANGED <<auth, clientHeaders, envToken, sitebay_client, constructed, probed,
                   mainpc, atexit, closeCalls, last, call>>

\* The reader of the resource gets the result; the slot is free again.
SummaryReturn(i) ==
    /\ inv[i].pc = "done"
    /\ inv' = [inv EXCEPT ![i] = SummaryIdle]
    /\ UNCHANGED <<auth, clientHeaders, envToken, sitebay_client, constructed, probed,
                   mainpc, atexit, closeCalls, last, call>>

InitSummary ==
    /\ envToken = Token
    /\ sitebay_client = 1
    /\ constructed = 1
    /\ probed = {1}
    /\ mainpc = "serving"
    /\ atexit = <<"cleanup">>
    /\ closeCalls = 0
    /\ inv = [i \in 1..MaxInv |-> SummaryIdle]
    /\ last = NoLast
    /\ call = NoCall
    /\ auth = AuthObject(Token)
    /\ clientHeaders = get_headers(JStr(Token)).v

NextSummary ==
    \/ \E i \in 1..MaxInv : SummaryStart(i)
    \/ \E i \in 1..MaxInv, resp \in SummaryAnswers : SummaryAnswer(i, resp)
    \/ \E i \in 1..MaxInv : SummaryReturn(i)

SpecSummary == InitSummary /\ [][NextSummary]_vars

-----------------------------------------------------------------------------
(* Claims about the client.                                                *)

RequestPrimitives == {"_request", "get", "post", "patch", "delete"}

\* C1: the request primitive classifies every response by its status and body:
\* 401 raises AuthenticationError, 404 raises SiteNotFoundError, 422 raises
\* ValidationError, any other status >= 400 raises APIError with that status,
\* a status < 400 returns the parsed JSON body, or the raw text when the body
\* is not JSON.
C1_Classification ==
    (Called /\ call.m \in RequestPrimitives /\ ~IsTransportFailure(call.resp)) =>
        LET st == call.resp.status
            r == call.res
            json == ResponseJson(call.resp)
        IN  /\ st = 401 => (~r.ret /\ r.e.exc = "AuthenticationError")
            /\ st = 404 => (~r.ret /\ r.e.exc = "SiteNotFoundError")
            /\ st = 422 => (~r.ret /\ r.e.exc = "ValidationError")
            /\ (st >= 400 /\ st \notin {401, 404, 422}) =>
                   (~r.ret /\ r.e.exc = "APIError" /\ r.e.status = <<st>>)
            /\ (st < 400 /\ Len(json) > 0) => (r.ret /\ r.val = json[1])
            /\ (st < 400 /\ Len(json) = 0) =>
                   (r.ret /\ r.val = JStr(ResponseText(call.resp)))

\* A 422 was classified, and a non-JSON body under 400 came back as raw text.
C1_Witness ==
    /\ Called
    /\ call.m = "_request"
    /\ ~IsTransportFailure(call.resp)
    /\ call.resp.status = 399
    /\ Len(ResponseJson(call.resp)) = 0
    /\ call.res.ret
    /\ call.res.val = JStr("Service Unavailable")

TaxonomyKinds ==
    {"AuthenticationError", "SiteNotFoundError", "ValidationError", "APIError"}

\* C5: a failing client operation raises one of the taxonomy kinds
\* (Authentication, NotFound, Validation, Generic-API or Network, the last two
\* both APIError): no other exception escapes a client method, and an error
\* response or a transport failure is never turned into a returned value.
C5_OnlyTaxonomyKinds ==
    Called =>
        /\ ~call.res.ret => call.res.e.exc \in TaxonomyKinds
        /\ (IsTransportFailure(call.resp) \/ call.resp.status >= 400) => ~call.res.ret

\* C7: every client call, whatever its outcome, hands exactly one request to
\* the transport.
C7_OneHttpCall == Called => Len(call.res.sent) = 1

\* A domain wrapper failed on a 503 after one request.
C7_Witness ==
    /\ Called
    /\ call.m \in DomainWrappers
    /\ ~IsTransportFailure(call.resp)
    /\ call.resp.status = 503
    /\ ~call.res.ret
    /\ Len(call.res.sent) = 1

\* C8: when no response arrives, the call raises APIError with the message
\* "Network error: " followed by the transport's detail and without a status
\* code, whatever status rules exist.
C8_NetworkError ==
    (Called /\ IsTransportFailure(call.resp)) =>
        /\ ~call.res.ret
        /\ call.res.e.exc = "APIError"
        /\ call.res.e.msg = "Network error: " \o call.resp.err
        /\ call.res.e.status = <<>>

\* A request timed out and raised the network error.
C8_Witness ==
    /\ Called
    /\ call.m = "get_site"
    /\ IsTransportFailure(call.resp)
    /\ call.resp.err = "timed out"
    /\ ~call.res.ret
    /\ call.res.e.msg = "Network error: timed out"

-----------------------------------------------------------------------------
(* The tool layer and the process.                                         *)

\* A tool invocation has completed after its client call was answered.
Answered == last.tool # "" /\ Len(last.resps) > 0

\* The answer the completed invocation's client call ended on.
FinalAnswer == last.resps[Len(last.resps)]

\* C2: a tool call that is answered 503 is retried, and ends on a 503 only
\* after three retries (four attempts of the underlying request); a call
\* answered 400 ends with zero retries (one attempt).
C2_RetryPolicy ==
    Answered /\ ~IsTransportFailure(FinalAnswer) =>
        /\ FinalAnswer.status = 503 => Len(last.sent) = 4
        /\ FinalAnswer.status = 400 => Len(last.sent) = 1

\* C3: a 404 on the external-path listing (a list operation with the
\* empty-list fallback) gives the tool's empty result and no error; a 404 on
\* an operation on one site (no fallback) reports NotFound to the caller.
C3_Fallback ==
    Answered /\ ~IsTransportFailure(FinalAnswer) /\ FinalAnswer.status = 404 =>
        /\ last.tool = "sitebay_site_external_path_list" =>
               last.out.kind = "string" /\ last.out.form = "empty"
        /\ last.tool \in {"sitebay_create_site", "sitebay_update_site",
                          "sitebay_delete_site"} =>
               \/ last.out.kind = "exception" /\ last.out.e.exc = "SiteNotFoundError"
               \/ last.out.kind = "string"
                    /\ Contains(last.out.text, "Requested resource not found")

\* C4: every tool invocation gives its caller a string and never an
\* exception, whatever the client call did and whether or not the client
\* could be initialized.
C4_AlwaysString == last.tool # "" => last.out.kind = "string"

\* C6: no tool invocation completes in a serving process that has no
\* credential, and none meets a ConfigurationError while the process serves.
C6_ConfigurationOnlyAtStartup ==
    mainpc = "serving" /\ last.tool # "" => envToken # "" /\ ~last.initError

\* C9: at most one client is ever constructed, and every invocation that
\* holds a client, in flight or completed, holds that one instance.
C9_SingleClient ==
    /\ constructed <= 1
    /\ \A i \in Slots :
           inv[i].pc \in {"probe", "request"} =>
               sitebay_client # 0 /\ inv[i].client = sitebay_client
    /\ last.tool # "" /\ ~last.initError => last.client = sitebay_client

\* One invocation is suspended in the probe of initialize_client while
\* another has been handed the client.
C9_Witness ==
    /\ inv[1].pc = "probe" /\ inv[2].pc = "request"
    /\ inv[1].client = inv[2].client

\* C10: when the process has exited and a client had been created, close was
\* invoked on it, whichever way the server loop ended.
C10_CloseBeforeExit == mainpc = "exited" /\ constructed > 0 => closeCalls >= 1

C10_Witness == mainpc = "exited" /\ constructed = 1 /\ closeCalls = 1

-----------------------------------------------------------------------------
(* The authenticator.                                                      *)

\* C11: constructing the authenticator with an explicit token holds that
\* token whatever the environment contains; without one it holds the value of
\* SITEBAY_API_TOKEN; it fails, with ConfigurationError, exactly when neither
\* source yields a token (an empty string is no token).
C11_TokenResolution ==
    call.m = "SiteBayAuth" =>
        /\ Truthy(call.args) => call.res.ok /\ auth = AuthObject(call.args.s)
        /\ ~Truthy(call.args) /\ envToken # "" =>
               call.res.ok /\ auth = AuthObject(envToken)
        /\ ~call.res.ok <=> ~Truthy(call.args) /\ envToken = ""
        /\ ~call.res.ok => call.res.exc.exc = "ConfigurationError" /\ ~auth.made

\* An explicit token was given in an environment that holds another one.
C11_Witness ==
    /\ call.m = "SiteBayAuth" /\ Truthy(call.args)
    /\ envToken # "" /\ Len(envToken) = Len(call.args.s)
    /\ auth = AuthObject(call.args.s)

\* The headers SiteBayAuth.get_headers is to return for token.
ThreeHeaders(token) ==
    JObj(<<"Authorization", "Content-Type", "Accept">>,
         <<JStr("Bearer " \o token), JStr("application/json"), JStr("application/json")>>)

\* C13: for any non-empty token, get_headers returns exactly Authorization =
\* "Bearer " + token, Content-Type = application/json, Accept =
\* application/json.
C13_Headers ==
    call.m = "get_headers" /\ Truthy(auth.api_token) =>
        call.res = Val(ThreeHeaders(auth.api_token.s))

C13_Witness ==
    /\ call.m = "get_headers" /\ call.res.ok
    /\ call.res.v.vs[1] = JStr("Bearer " \o auth.api_token.s)

\* C14: validate_token is false for every token of length 0 to 19 and true
\* for every token of length 20 or more.
C14_WellFormed ==
    /\ call.m = "validate_token" => call.res = (Len(auth.api_token.s) >= 20)
    /\ ~validate_token(JStr(""))

\* validate_token has answered for a token of exactly 20 characters.
C14_Witness ==
    call.m = "validate_token" /\ Len(auth.api_token.s) = 20 /\ call.res

\* The requests that have left the process for the invocations in flight and
\* for the one completed last.
OnTheWire ==
    UNION {{inv[i].wire[k] : k \in 1..Len(inv[i].wire)} : i \in Slots}
        \cup (IF last.tool = "" THEN {}
              ELSE {last.wire[k] : k \in 1..Len(last.wire)})

\* C12: once the authenticator is constructed its token is non-empty and is
\* the value resolved at construction, no step changes it, get_headers does
\* not raise, and every request that leaves the process carries the three
\* headers with Authorization "Bearer " + that token.
C12_CredentialImmutable ==
    /\ [](auth.made =>
              /\ Truthy(auth.api_token)
              /\ auth.api_token = JStr(envToken)
              /\ get_headers(auth.api_token).ok
              /\ \A req \in OnTheWire : req.headers = ThreeHeaders(auth.api_token.s))
    /\ [][auth.made => auth' = auth]_vars

\* A completed invocation sent the probe and its own request.
C12_Witness ==
    /\ last.tool # "" /\ Len(last.wire) = 2 /\ auth.made
    /\ last.wire[2].headers = ThreeHeaders(envToken)

\* The name an endpoint argument stands for: the argument without its
\* leading slash.
EndpointName(e) == IF StartsWith(e, "/") THEN SubSeq(e, 2, Len(e)) ELSE e

\* C15: for every endpoint name e, _get_url(e) and _get_url("/" + e) yield the
\* same path, the API prefix "/f/api/v1", exactly one "/", and e: every
\* request of a request primitive goes to that path, whether the caller wrote
\* the name bare or with a leading slash.
C15_UrlNormalized ==
    (Called /\ call.m \in RequestPrimitives) =>
        /\ Len(call.res.sent) = 1
        /\ call.res.sent[1].url =
               "/f/api/v1" \o "/" \o EndpointName(call.args.endpoint)
        /\ _get_url(call.args.endpoint) =
               _get_url("/" \o EndpointName(call.args.endpoint))
        /\ _get_url(call.args.endpoint) = _get_url(EndpointName(call.args.endpoint))

\* get("site/x.example.com/cmd") completed, and went to the path that
\* get("/site/x.example.com/cmd") goes to.
C15_Witness ==
    /\ Called
    /\ call.m = "get"
    /\ call.args.endpoint = "site/x.example.com/cmd"
    /\ call.res.sent[1].url = "/f/api/v1/site/x.example.com/cmd"
    /\ _get_url("/site/x.example.com/cmd") = call.res.sent[1].url

\* A call was answered 422 with a JSON body and has raised.
Rejected ==
    /\ Called
    /\ ~IsTransportFailure(call.resp)
    /\ call.resp.status = 422
    /\ Len(ResponseJson(call.resp)) = 1

\* The JSON body of the answer to the last call.
ErrorData == ResponseJson(call.resp)[1]

\* A `detail` entry with a non-empty `loc` list and a string `msg`.
IsLocMsg(error) ==
    /\ IsDict(error)
    /\ HasKey(error, "loc") /\ IsList(DictGet(error, "loc", JNull))
    /\ Len(DictGet(error, "loc", JNull).xs) > 0
    /\ HasKey(error, "msg") /\ IsStr(DictGet(error, "msg", JNull))

\* The body's `detail` is a non-empty list of such entries.
HasLocMsgDetail(error_data) ==
    /\ IsDict(error_data) /\ HasKey(error_data, "detail")
    /\ IsList(DictGet(error_data, "detail", JNull))
    /\ Len(DictGet(error_data, "detail", JNull).xs) > 0
    /\ \A i \in 1..Len(DictGet(error_data, "detail", JNull).xs) :
           IsLocMsg(DictGet(error_data, "detail", JNull).xs[i])

\* join(loc, " -> ") of an entry
JoinedLoc(error) ==
    LET loc == DictGet(error, "loc", JNull).xs
    IN  Join([i \in 1..Len(loc) |-> PyStr(loc[i])], " -> ")

\* C16: for a 422 body whose `detail` is a list of entries each with a
\* non-empty `loc` and a `msg`, the message is the heading followed by one
\* bulleted line per entry, join(loc, " -> ") + ": " + msg, in list order, and
\* the field errors map exactly the joined locations, each to the msg of its
\* entry (of the last such entry when a location is repeated).
C16_DetailList ==
    (Rejected /\ HasLocMsgDetail(ErrorData)) =>
        LET detail == DictGet(ErrorData, "detail", JNull).xs
            fe == call.res.e.field_errors
        IN  /\ ~call.res.ret
            /\ call.res.e.exc = "ValidationError"
            /\ call.res.e.msg =
                   "Validation Error:\n" \o
                   Join([i \in 1..Len(detail) |->
                            "  * " \o JoinedLoc(detail[i]) \o ": "
                                  \o DictGet(detail[i], "msg", JNull).s], "\n")
            /\ \A i \in 1..Len(detail) :
                   /\ HasKey(fe, JoinedLoc(detail[i]))
                   /\ (\A j \in (i + 1)..Len(detail) :
                           JoinedLoc(detail[j]) # JoinedLoc(detail[i]))
                       => DictGet(fe, JoinedLoc(detail[i]), JNull)
                              = DictGet(detail[i], "msg", JNull)
            /\ \A k \in 1..Len(fe.ks) :
                   \E i \in 1..Len(detail) : fe.ks[k] = JoinedLoc(detail[i])

\* The body {"detail": [{"loc": ["body", "field"], "msg": "invalid"}]} was
\* rejected with the line "body -> field: invalid" and the one-key map.
C16_Witness ==
    /\ Rejected
    /\ ErrorData = JObj(<<"detail">>,
                        <<JList(<<LocMsg(<<JStr("body"), JStr("field")>>, "invalid")>>)>>)
    /\ call.res.e.msg = "Validation Error:\n  * body -> field: invalid"
    /\ call.res.e.field_errors = JObj(<<"body -> field">>, <<JStr("invalid")>>)

\* The rules of the validation message, as conditions on the body.
IsStrDetail(b) == IsDict(b) /\ HasKey(b, "detail") /\ IsStr(DictGet(b, "detail", JNull))

\* `detail` is a list with an object entry to format
IsListDetail(b) ==
    /\ IsDict(b) /\ HasKey(b, "detail") /\ IsList(DictGet(b, "detail", JNull))
    /\ \E i \in 1..Len(DictGet(b, "detail", JNull).xs) :
           IsDict(DictGet(b, "detail", JNull).xs[i])

HasMessage(b) == IsDict(b) /\ HasKey(b, "message")

\* `errors` is a non-empty mapping of fields to strings or lists of strings
IsErrorsMapping(b) ==
    /\ IsDict(b) /\ HasKey(b, "errors") /\ IsDict(DictGet(b, "errors", JNull))
    /\ Len(DictGet(b, "errors", JNull).ks) > 0
    /\ \A i \in 1..Len(DictGet(b, "errors", JNull).vs) :
           LET messages == DictGet(b, "errors", JNull).vs[i] IN
           \/ IsStr(messages)
           \/ /\ IsList(messages) /\ Len(messages.xs) > 0
              /\ \A j \in 1..Len(messages.xs) : IsStr(messages.xs[j])

\* The label of the first object entry of a list `detail`.
FirstDetailLabel(b) ==
    LET xs == DictGet(b, "detail", JNull).xs
        i == CHOOSE i \in 1..Len(xs) :
                 IsDict(xs[i]) /\ \A j \in 1..(i - 1) : ~IsDict(xs[j])
    IN  IF IsLocMsg(xs[i]) THEN JoinedLoc(xs[i]) ELSE "unknown field"

\* C17: the validation message is chosen by the first matching rule in the
\* order string `detail`, list `detail`, `message`, `errors` mapping,
\* catch-all: a body matching several rules is formatted by the earliest.
C17_FirstMatch ==
    (Rejected /\ IsDict(ErrorData)) =>
        LET b == ErrorData
            msg == call.res.e.msg
        IN  IF IsStrDetail(b)
            THEN msg = "Validation Error: " \o DictGet(b, "detail", JNull).s
            ELSE IF IsListDetail(b)
            THEN StartsWith(msg, "Validation Error:\n  * " \o FirstDetailLabel(b) \o ": ")
            ELSE IF HasMessage(b)
            THEN msg = "Validation Error: " \o PyStr(DictGet(b, "message", JNull))
            ELSE IF IsErrorsMapping(b)
            THEN StartsWith(msg, "Validation Error:\n  * "
                                    \o DictGet(b, "errors", JNull).ks[1] \o ": ")
            ELSE TRUE

\* The body is an object with none of the fields the rules look at.
NoRecognizedField(b) ==
    IsDict(b) /\ ~HasKey(b, "detail") /\ ~HasKey(b, "message") /\ ~HasKey(b, "errors")

\* C18 as stated: for every parseable 422 JSON object body with no `detail`,
\* `message` or `errors`, the empty object included, the validation message
\* is "Validation Error: " followed by the string form of the body.
C18_CatchAll_AsStated ==
    (Rejected /\ NoRecognizedField(ErrorData)) =>
        call.res.e.msg = "Validation Error: " \o PyStr(ErrorData)

\* C18: for every parseable 422 JSON object body with no `detail`, `message`
\* or `errors`, the validation message is "Validation Error: " followed by the
\* string form of the body when the object is non-empty, and "Validation
\* failed" when it is the empty object; the field errors are empty in both
\* cases.
C18_CatchAll ==
    (Rejected /\ NoRecognizedField(ErrorData)) =>
        /\ call.res.e.exc = "ValidationError"
        /\ call.res.e.field_errors = EmptyDict
        /\ call.res.e.msg =
               IF Truthy(ErrorData) THEN "Validation Error: " \o PyStr(ErrorData)
               ELSE "Validation failed"

\* A 422 with a site object as its body was rejected with the string form of
\* the object.
C18_Witness ==
    /\ Rejected
    /\ NoRecognizedField(ErrorData)
    /\ ErrorData = SiteObj
    /\ call.res.e.msg = "Validation Error: {'fqdn': 'x.example.com', 'active': True}"

\* The `errors` rule is the first rule the body matches.
ErrorsRuleApplies(b) ==
    /\ IsDict(b)
    /\ ~IsStrDetail(b) /\ ~IsListDetail(b) /\ ~HasMessage(b)
    /\ IsErrorsMapping(b)

RECURSIVE Concat(_)
\* The concatenation of a sequence of sequences.
Concat(seqs) == IF Len(seqs) = 0 THEN <<>> ELSE Head(seqs) \o Concat(Tail(seqs))

\* C19 as stated: a body formatted by the `errors` rule gets exactly one
\* bulleted line per field of the mapping, a list of strings appearing on
\* the single line of its field joined by "; ".
C19_ErrorsLines_AsStated ==
    (Rejected /\ ErrorsRuleApplies(ErrorData)) =>
        LET errors == DictGet(ErrorData, "errors", JNull) IN
        call.res.e.msg =
            "Validation Error:\n" \o
            Join([i \in 1..Len(errors.ks) |->
                     "  * " \o errors.ks[i] \o ": " \o
                     (IF IsList(errors.vs[i])
                      THEN Join([j \in 1..Len(errors.vs[i].xs) |-> errors.vs[i].xs[j].s], "; ")
                      ELSE errors.vs[i].s)], "\n")

\* C19: a body formatted by the `errors` rule gets one bulleted line per
\* message: a field whose value is a string has one line "field: value", a
\* field whose value is a list of strings has one line "field: item" for each
\* item, in the order of the mapping and of each list.
C19_ErrorsLines ==
    (Rejected /\ ErrorsRuleApplies(ErrorData)) =>
        LET errors == DictGet(ErrorData, "errors", JNull) IN
        call.res.e.msg =
            "Validation Error:\n" \o
            Join(Concat([i \in 1..Len(errors.ks) |->
                            IF IsList(errors.vs[i])
                            THEN [j \in 1..Len(errors.vs[i].xs) |->
                                     "  * " \o errors.ks[i] \o ": " \o errors.vs[i].xs[j].s]
                            ELSE <<"  * " \o errors.ks[i] \o ": " \o errors.vs[i].s>>]),
                 "\n")

\* The body {"errors": {"name": ["too short", "bad chars"], "email":
\* "invalid"}} was rejected with three lines, two of them for name.
C19_Witness ==
    /\ Rejected
    /\ ErrorData = JObj(<<"errors">>, ErrorsShapes[3])
    /\ call.res.e.msg =
           "Validation Error:\n  * name: too short\n  * name: bad chars\n  * email: invalid"

\* The keys of a dict, as a set.
KeySet(d) == {d.ks[i] : i \in 1..Len(d.ks)}

\* The field labels the bulleted lines of a list `detail` show.
DetailLabels(b) ==
    LET xs == DictGet(b, "detail", JNull).xs IN
    {IF IsLocMsg(xs[i]) THEN JoinedLoc(xs[i]) ELSE "unknown field" :
        i \in {j \in 1..Len(xs) : IsDict(xs[j])}}

\* C20: field-error extraction mirrors message formatting: the field-error
\* map is built from the body field the first matching rule built the message
\* from (the `detail` list or the `errors` mapping), its keys are the field
\* labels of the message's bulleted lines, and it is empty whenever the
\* message was produced by any other rule.
C20_Mirrors ==
    (Rejected /\ IsDict(ErrorData)) =>
        LET b == ErrorData
            field_errors == call.res.e.field_errors
        IN  IF IsStrDetail(b) THEN field_errors = EmptyDict
            ELSE IF IsListDetail(b) THEN KeySet(field_errors) = DetailLabels(b)
            ELSE IF HasMessage(b) THEN field_errors = EmptyDict
            ELSE IF IsErrorsMapping(b)
            THEN KeySet(field_errors) = KeySet(DictGet(b, "errors", JNull))
            ELSE field_errors = EmptyDict

C22_UnparseableBody ==
    (Called /\ ~IsTransportFailure(call.resp) /\ call.resp.status = 422
            /\ Len(ResponseJson(call.resp)) = 0) =>
        /\ ~call.res.ret
        /\ call.res.e.exc = "ValidationError"
        /\ call.res.e.msg = "Validation Error: " \o ResponseText(call.resp)
        /\ call.res.e.field_errors = EmptyDict

\* A 422 with the text "Service Unavailable" was rejected with that text.
C22_Witness ==
    /\ Called /\ ~IsTransportFailure(call.resp) /\ call.resp.status = 422
    /\ Len(ResponseJson(call.resp)) = 0
    /\ ResponseText(call.resp) = "Service Unavailable"
    /\ call.res.e.msg = "Validation Error: Service Unavailable"

\* The last call was answered with a status >= 400 other than 401, 404, 422.
GenericFailure ==
    /\ Called /\ ~IsTransportFailure(call.resp)
    /\ call.resp.status >= 400
    /\ call.resp.status \notin {401, 404, 422}

\* The JSON body of the answer is an object with a `detail` field.
HasDetail(resp) ==
    /\ Len(ResponseJson(resp)) = 1
    /\ IsDict(ResponseJson(resp)[1]) /\ HasKey(ResponseJson(resp)[1], "detail")

\* C23 as stated: the APIError of such a response carries the status; its
\* message is the body's `detail` when the body is JSON containing one and
\* otherwise "API Error: <status> - <raw body>"; it carries the parsed body
\* when the body is parseable JSON and none otherwise.
C23_GenericError_AsStated ==
    GenericFailure =>
        /\ ~call.res.ret
        /\ call.res.e.exc = "APIError"
        /\ call.res.e.status = <<call.resp.status>>
        /\ call.res.e.data = ResponseJson(call.resp)
        /\ call.res.e.msg =
               IF HasDetail(call.resp)
               THEN PyStr(DictGet(ResponseJson(call.resp)[1], "detail", JNull))
               ELSE "API Error: " \o ToString(call.resp.status) \o " - "
                        \o ResponseText(call.resp)

\* C23: the APIError of such a response carries the status and, when the body
\* is parseable JSON, the parsed body (none otherwise); its message is the
\* body's `detail` when the body is a JSON object containing one, "API Error:
\* <status>" when the body is a JSON object without one, and "API Error:
\* <status> - <raw body>" when the body is not JSON or not a JSON object.
C23_GenericError ==
    GenericFailure =>
        /\ ~call.res.ret
        /\ call.res.e.exc = "APIError"
        /\ call.res.e.status = <<call.resp.status>>
        /\ call.res.e.data = ResponseJson(call.resp)
        /\ call.res.e.msg =
               IF HasDetail(call.resp)
               THEN PyStr(DictGet(ResponseJson(call.resp)[1], "detail", JNull))
               ELSE IF Len(ResponseJson(call.resp)) = 1 /\ IsDict(ResponseJson(call.resp)[1])
               THEN "API Error: " \o ToString(call.resp.status)
               ELSE "API Error: " \o ToString(call.resp.status) \o " - "
                        \o ResponseText(call.resp)

\* A 500 with the body {} raised APIError("API Error: 500") carrying the
\* status and the parsed body.
C23_Witness ==
    /\ GenericFailure
    /\ call.resp.status = 500
    /\ ResponseJson(call.resp) = <<EmptyDict>>
    /\ call.res.e.msg = "API Error: 500"
    /\ call.res.e.status = <<500>>
    /\ call.res.e.data = <<EmptyDict>>

\* The interface table: the HTTP method and the path of each domain wrapper,
\* for the site fqdn and the resource id.
InterfaceTable(m, fqdn, id) ==
    CASE m = "list_sites" -> <<"GET", "/site">>
      [] m = "get_site" -> <<"GET", "/site/" \o fqdn>>
      [] m = "create_site" -> <<"POST", "/site">>
      [] m = "update_site" -> <<"PATCH", "/site/" \o fqdn>>
      [] m = "delete_site" -> <<"DELETE", "/site/" \o fqdn>>
      [] m = "execute_shell_command" -> <<"POST", "/site/" \o fqdn \o "/cmd">>
      [] m = "edit_file" -> <<"POST", "/site/" \o fqdn \o "/wpfile_diff_edit">>
      [] m = "get_site_events" -> <<"GET", "/site/" \o fqdn \o "/event">>
      [] m = "create_staging_site" -> <<"POST", "/site/" \o fqdn \o "/stage">>
      [] m = "delete_staging_site" -> <<"DELETE", "/site/" \o fqdn \o "/stage">>
      [] m = "commit_staging_site" -> <<"POST", "/site/" \o fqdn \o "/stage/commit">>
      [] m = "get_backup_commits" -> <<"GET", "/site/" \o fqdn \o "/pit_restore/commits">>
      [] m = "create_restore" -> <<"POST", "/site/" \o fqdn \o "/pit_restore">>
      [] m = "list_restores" -> <<"GET", "/site/" \o fqdn \o "/pit_restore">>
      [] m = "list_external_paths" -> <<"GET", "/site/" \o fqdn \o "/external_path">>
      [] m = "create_external_path" -> <<"POST", "/site/" \o fqdn \o "/external_path">>
      [] m = "update_external_path" ->
            <<"PATCH", "/site/" \o fqdn \o "/external_path/" \o id>>
      [] m = "delete_external_path" ->
            <<"DELETE", "/site/" \o fqdn \o "/external_path/" \o id>>
      [] m = "wordpress_proxy" -> <<"POST", "/wp-proxy">>
      [] m = "shopify_proxy" -> <<"POST", "/shopify-proxy">>
      [] m = "posthog_proxy" -> <<"POST", "/posthog-proxy">>
      [] m = "list_teams" -> <<"GET", "/team">>
      [] m = "list_templates" -> <<"GET", "/template">>
      [] m = "list_regions" -> <<"GET", "/region">>
      [] m = "get_affiliate_referrals" -> <<"GET", "/account/referred_user">>
      [] m = "create_checkout_session" -> <<"POST", "/create_checkout_session">>

\* The query parameters of the interface table: the optional ones only when
\* a value is given.
InterfaceParams(m, a) ==
    CASE m = "list_sites" ->
            IF a.opt = JNull THEN JNull ELSE JObj(<<"team_id">>, <<a.opt>>)
      [] m = "get_site_events" ->
            IF a.opt = JNull THEN JNull ELSE JObj(<<"after_datetime">>, <<a.opt>>)
      [] m = "get_backup_commits" -> JObj(<<"number_to_fetch">>, <<JNum(a.n)>>)
      [] OTHER -> JNull

\* C24: each domain wrapper issues one request with the method and the path
\* of the interface table, the fqdn or resource id interpolated, and with the
\* optional query parameters (team_id, after_datetime) only when provided.
C24_InterfaceTable ==
    (Called /\ call.m \in DomainWrappers) =>
        /\ Len(call.res.sent) = 1
        /\ call.res.sent[1].method = InterfaceTable(call.m, call.args.fqdn, call.args.id)[1]
        /\ call.res.sent[1].url =
               "/f/api/v1" \o InterfaceTable(call.m, call.args.fqdn, call.args.id)[2]
        /\ call.res.sent[1].params = InterfaceParams(call.m, call.args)

\* delete_staging_site("x.example.com") sent DELETE /site/x.example.com/stage
\* without query parameters.
C24_Witness ==
    /\ Called
    /\ call.m = "delete_staging_site"
    /\ call.res.sent[1].method = "DELETE"
    /\ call.res.sent[1].url = "/f/api/v1/site/x.example.com/stage"
    /\ call.res.sent[1].params = JNull

\* C25: list_sites returns the collection stored under `results` of a
\* JSON-object response, the empty collection when the key is absent, with
\* the elements unchanged and in order.
C25_ListSitesResults ==
    (/\ Called /\ call.m = "list_sites"
     /\ ~IsTransportFailure(call.resp) /\ call.resp.status < 400
     /\ Len(ResponseJson(call.resp)) = 1 /\ IsDict(ResponseJson(call.resp)[1])) =>
        /\ call.res.ret
        /\ call.res.val =
               IF HasKey(ResponseJson(call.resp)[1], "results")
               THEN DictGet(ResponseJson(call.resp)[1], "results", JNull)
               ELSE JList(<<>>)

\* list_sites against {"results": [{"fqdn": "x.example.com", "active": true}]}
\* returned a one-element collection whose fqdn is "x.example.com".
C25_Witness ==
    /\ Called /\ call.m = "list_sites"
    /\ ~IsTransportFailure(call.resp) /\ call.resp.status = 200
    /\ ResponseJson(call.resp) = <<JObj(<<"results">>, <<JList(<<SiteObj>>)>>)>>
    /\ call.res.ret
    /\ IsList(call.res.val) /\ Len(call.res.val.xs) = 1
    /\ DictGet(call.res.val.xs[1], "fqdn", JNull) = JStr("x.example.com")

SummaryPaths == <<"/f/api/v1/site", "/f/api/v1/team", "/f/api/v1/region", "/f/api/v1/template">>

DeletesSent == {k \in 1..Len(last.wire) : last.wire[k].method = "DELETE"}

\* C28: the delete-site tool issues DELETE /site/{fqdn} only when called with
\* confirm = True; with confirm = False it issues no delete request and
\* returns the confirmation-required message, for every fqdn and in every
\* state.
C28_ConfirmGate ==
    last.tool = "sitebay_delete_site" =>
        /\ \A k \in DeletesSent :
               /\ last.args.confirm
               /\ last.wire[k].url = BASE_URL \o "/f/api/v1/site/" \o last.args.fqdn
        /\ ~last.args.confirm =>
               /\ DeletesSent = {}
               /\ last.out.kind = "string"
               /\ last.out.form = "confirmation_required"
               /\ Contains(last.out.text, "**" \o last.args.fqdn \o "**")

\* C29: a tool issues its API request only on a client whose connectivity
\* probe has succeeded: every invocation suspended in its own client call,
\* and every completed one that sent a request of its own, holds a probed
\* client.
C29_ProbedBeforeUse ==
    /\ \A i \in Slots : inv[i].pc = "request" => inv[i].client \in probed
    /\ last.tool # "" /\ ~last.initError /\ Len(last.sent) > 0 =>
           last.client \in probed

\* The exception the create-site API call of the completed invocation
\* raised was a ValidationError with a non-empty field_errors map.
CreateSiteRejected ==
    /\ last.tool = "sitebay_create_site"
    /\ ~last.initError
    /\ Len(last.resps) = 1
    /\ LET r == create_site(CreateSiteData(last.args.fqdn), last.resps[1]) IN
           ~r.ret /\ r.e.exc = "ValidationError" /\ Truthy(r.e.field_errors)

\* C30: when the create-site API call fails with a validation error
\* carrying a non-empty field-error map, the string sitebay_create_site
\* returns begins with the 'Validation Error - Please check your input' text
\* and lists every field of the map with its message under 'Specific field
\* errors'.
C30_DetailedForm ==
    CreateSiteRejected =>
        LET fe == create_site(CreateSiteData(last.args.fqdn), last.resps[1]).e.field_errors IN
        /\ last.out.kind = "string"
        /\ StartsWith(last.out.text, "[X] Validation Error - Please check your input")
        /\ Contains(last.out.text,
                    "\nSpecific field errors:\n" \o FieldErrorLines(fe.ks, fe.vs))

====
